---- MODULE Spec2Model ----
(***************************************************************************)
(* AGV warehouse simulation engine (package agv_simulation): tile graph,   *)
(* weighted A*, the AGV movement machine, the Cart/Order/Job data model,   *)
(* the Dispatcher and the headless tick loop.                              *)
(*                                                                         *)
(* Time and path progress are kept in hundredths (1.0 s = 100, progress    *)
(* 0.99 = 99), so every float of the source is an exact integer here.      *)
(* The warehouse layout is a reduced one built by the same rules as        *)
(* build_map/build_graph: a one-way anti-clockwise highway ring, station   *)
(* tiles whose number equals the station capacity, unaffiliated parking.   *)
(***************************************************************************)
EXTENDS Integers, Sequences, FiniteSets, TLC

\* ------------------------------------------------------------------------
\* Bounds of the model
\* ------------------------------------------------------------------------
\* longest pick list of a generated Order (the source draws 1..9 picks)
MaxPicks == 2
\* sim_duration (hundredths of a second) of the long single-cart runs
MaxTime == 60000
\* sim_duration of the runs with several carts
ShortTime == 20000
\* how long the runs that start near the dispatch limit go on
AssignTime == 1200

\* ------------------------------------------------------------------------
\* Program constants (constants.py), seconds scaled by 100
\* ------------------------------------------------------------------------
AGV_SPEED == 1
PICKUP_TIME == 500
DROPOFF_TIME == 500
BOX_DEPOT_TIME == 4500
PICK_TIME_PER_ITEM == 9000
PACKOFF_TIME == 6000
BLOCK_TIMEOUT == 300
REROUTE_COOLDOWN == 200
JOB_CANCEL_TIMEOUT == 3000
MAX_CONCURRENT_DISPATCHES == 12

\* None of the source
NoPos == <<-1, -1>>
NoStation == "None"
NoOrder == [picks |-> <<>>, stations_to_visit |-> <<>>, completed_stations |-> <<>>, present |-> FALSE]

\* ------------------------------------------------------------------------
\* helpers
\* ------------------------------------------------------------------------
Abs(n) == IF n < 0 THEN -n ELSE n
Manhattan(p, q) == Abs(p[1] - q[1]) + Abs(p[2] - q[2])
Min2(a, b) == IF a < b THEN a ELSE b
Range(s) == {s[k] : k \in 1..Len(s)}
Last(s) == s[Len(s)]
\* s[k] of a Python list (0-based)
At(s, k) == s[k + 1]

RECURSIVE RemoveFirst(_, _)
RemoveFirst(s, e) ==
  IF s = <<>> THEN <<>>
  ELSE IF Head(s) = e THEN Tail(s)
  ELSE <<Head(s)>> \o RemoveFirst(Tail(s), e)

\* ------------------------------------------------------------------------
\* Layout: build_map.  One entry per put(), in insertion order.
\*
\*   y=0   P   BD  BD  BD  PO  PO  P       parking row (docks)
\*   y=1   H   H   H   H   H   H   H       top highway, flows West
\*   y=2   H   S1  S1  P   S2  S2  H       left highway South, right North
\*   y=3   H   H   H   H   H   H   H       bottom highway, flows East
\*   y=4   bd  P   CS  AS  P   P   rk      depot building, spawns, racking
\* ------------------------------------------------------------------------
TileList ==
  << <<0, 0, "parking", NoStation>>,
     <<1, 0, "parking", "Box_Depot">>, <<2, 0, "parking", "Box_Depot">>,
     <<3, 0, "parking", "Box_Depot">>,
     <<4, 0, "parking", "Pack_off">>, <<5, 0, "parking", "Pack_off">>,
     <<6, 0, "parking", NoStation>>,
     <<0, 1, "highway", NoStation>>, <<1, 1, "highway", NoStation>>,
     <<2, 1, "highway", NoStation>>, <<3, 1, "highway", NoStation>>,
     <<4, 1, "highway", NoStation>>, <<5, 1, "highway", NoStation>>,
     <<6, 1, "highway", NoStation>>,
     <<0, 2, "highway", NoStation>>,
     <<1, 2, "pick_station", "S1">>, <<2, 2, "pick_station", "S1">>,
     <<3, 2, "parking", NoStation>>,
     <<4, 2, "pick_station", "S2">>, <<5, 2, "pick_station", "S2">>,
     <<6, 2, "highway", NoStation>>,
     <<0, 3, "highway", NoStation>>, <<1, 3, "highway", NoStation>>,
     <<2, 3, "highway", NoStation>>, <<3, 3, "highway", NoStation>>,
     <<4, 3, "highway", NoStation>>, <<5, 3, "highway", NoStation>>,
     <<6, 3, "highway", NoStation>>,
     <<0, 4, "box_depot", "Box_Depot">>, <<1, 4, "parking", NoStation>>,
     <<2, 4, "cart_spawn", NoStation>>, <<3, 4, "agv_spawn", NoStation>>,
     <<4, 4, "parking", NoStation>>, <<5, 4, "parking", NoStation>>,
     <<6, 4, "racking", "S2">> >>

\* (x, y) of each entry
Positions(list) == [k \in 1..Len(list) |-> <<list[k][1], list[k][2]>>]

\* tiles.items(): positions in insertion order
TileOrder == Positions(TileList)
TilePositions == Range(TileOrder)

\* tiles[(x, y)] = Tile(x, y, tile_type, station_id) for every put()
TilesOf(list) ==
  [p \in Range(Positions(list)) |->
     LET e == list[CHOOSE j \in 1..Len(list) : <<list[j][1], list[j][2]>> = p]
     IN [tile_type |-> e[3], station_id |-> e[4]]]

build_map == TilesOf(TileList)

tiles == build_map

\* Station capacities (STATIONS): one per station of the layout
STATIONS == [S1 |-> 2, S2 |-> 2, Box_Depot |-> 3, Pack_off |-> 2]
StationIds == <<"S1", "S2", "Box_Depot", "Pack_off">>
\* station numbers an Order can draw (random.randint over the pick stations)
StationNums == {1, 2}
Sid(n) == IF n = 1 THEN "S1" ELSE "S2"
StationNum(sid) == IF sid = "S1" THEN 1 ELSE 2

\* ------------------------------------------------------------------------
\* build_graph
\* ------------------------------------------------------------------------
\* positions of the tiles of the given types
OfType(ts, types) == {p \in DOMAIN ts : ts[p].tile_type \in types}

highway_positions == OfType(tiles, {"highway"})
non_highway_positions ==
  OfType(tiles, {"pick_station", "parking", "agv_spawn", "cart_spawn"})
all_positions == highway_positions \cup non_highway_positions

Cardinal == << <<1, 0>>, <<-1, 0>>, <<0, 1>>, <<0, -1>> >>

\* one-way loop of the layout: top West, left South, bottom East, right North
get_highway_directions(x, y) ==
  IF x = 0 /\ y \in 1..2 THEN {<<0, 1>>}
  ELSE IF y = 1 /\ x \in 1..6 THEN {<<-1, 0>>}
  ELSE IF y = 3 /\ x \in 0..5 THEN {<<1, 0>>}
  ELSE IF x = 6 /\ y \in 2..3 THEN {<<0, -1>>}
  ELSE {}

Shift(p, d) == <<p[1] + d[1], p[2] + d[2]>>

\* the adjacency sets over the highway and non-highway positions
GraphOf(highway, non_highway) ==
  [p \in highway \cup non_highway |->
     \* highway edges along the one-way loop
     (IF p \in highway
        THEN {Shift(p, d) : d \in get_highway_directions(p[1], p[2])}
               \cap (highway \cup non_highway)
        ELSE {})
     \* non-highway tiles: all four cardinal directions
     \cup (IF p \in non_highway
             THEN {Shift(p, d) : d \in Range(Cardinal)} \cap (highway \cup non_highway)
             ELSE {})
     \* sidetrack edges: highway <-> adjacent non-highway, both ways
     \cup (IF p \in highway
             THEN {Shift(p, d) : d \in Range(Cardinal)} \cap non_highway
             ELSE {})]

build_graph == GraphOf(highway_positions, non_highway_positions)

graph == build_graph

\* iteration order of g[p] (a Python set): fixed per build; the model takes
\* the order of the cardinal directions
NeighborsIn(g, p) ==
  SelectSeq([k \in 1..4 |-> Shift(p, Cardinal[k])], LAMBDA q : q \in g[p])



\* ------------------------------------------------------------------------
\* astar (pathfinding.py).  <<>> stands for None.
\* ------------------------------------------------------------------------
Inf == 1000000

h(node, goal) == Manhattan(node, goal)

\* a reconstruction that leaves out the start node
RECURSIVE ReconstructPath_NoStart(_, _)
ReconstructPath_NoStart(came_from, current) ==
  IF came_from[current] = NoPos THEN <<>>
  ELSE Append(ReconstructPath_NoStart(came_from, came_from[current]), current)

RECURSIVE ReconstructPath(_, _)
ReconstructPath(came_from, current) ==
  IF came_from[current] = NoPos THEN <<current>>
  ELSE Append(ReconstructPath(came_from, came_from[current]), current)

\* every step costs 1
EdgeCost_Uniform(ts, neighbor, goal) == 1

\* highway tiles cost 1, the others 10; the step onto the goal costs 1
EdgeCost(ts, neighbor, goal) ==
  IF neighbor # goal
    THEN (IF ts[neighbor].tile_type = "highway" THEN 1 ELSE 10)
    ELSE 1

\* a relaxation that never looks at blocked
RelaxOne_IgnoresBlocked(st, current, neighbor, tentative_g, goal, blocked) ==
  IF tentative_g < st.g_score[neighbor]
    THEN [open |-> st.open \cup
                     {<<tentative_g + h(neighbor, goal), st.counter + 1, neighbor>>},
          came_from |-> [st.came_from EXCEPT ![neighbor] = current],
          g_score |-> [st.g_score EXCEPT ![neighbor] = tentative_g],
          counter |-> st.counter + 1]
  ELSE st

\* a relaxation that skips a blocked goal as well
RelaxOne_BlocksGoal(st, current, neighbor, tentative_g, goal, blocked) ==
  IF neighbor \in blocked THEN st
  ELSE IF tentative_g < st.g_score[neighbor]
    THEN [open |-> st.open \cup
                     {<<tentative_g + h(neighbor, goal), st.counter + 1, neighbor>>},
          came_from |-> [st.came_from EXCEPT ![neighbor] = current],
          g_score |-> [st.g_score EXCEPT ![neighbor] = tentative_g],
          counter |-> st.counter + 1]
  ELSE st

\* one neighbour of current: skipped when blocked, relaxed when cheaper
RelaxOne(st, current, neighbor, tentative_g, goal, blocked) ==
  IF neighbor \in blocked /\ neighbor # goal THEN st
  ELSE IF tentative_g < st.g_score[neighbor]
    THEN [open |-> st.open \cup
                     {<<tentative_g + h(neighbor, goal), st.counter + 1, neighbor>>},
          came_from |-> [st.came_from EXCEPT ![neighbor] = current],
          g_score |-> [st.g_score EXCEPT ![neighbor] = tentative_g],
          counter |-> st.counter + 1]
  ELSE st

\* the for-loop over the neighbours of current
RECURSIVE Relax(_, _, _, _, _, _)
Relax(nbrs, current, st, goal, blocked, ts) ==
  IF nbrs = <<>> THEN st
  ELSE Relax(Tail(nbrs), current,
             RelaxOne(st, current, Head(nbrs),
                      st.g_score[current] + EdgeCost(ts, Head(nbrs), goal),
                      goal, blocked),
             goal, blocked, ts)

\* heapq.heappop: least f, then least counter
HeapTop(open) ==
  CHOOSE e \in open : \A o \in open : e[1] < o[1] \/ (e[1] = o[1] /\ e[2] <= o[2])

\* the while-loop over the heap
RECURSIVE AstarLoop(_, _, _, _, _)
RECURSIVE AstarPop(_, _, _, _, _, _)
AstarLoop(st, goal, blocked, g, ts) ==
  IF st.open = {} THEN <<>>
  ELSE AstarPop(st, HeapTop(st.open), goal, blocked, g, ts)

\* one iteration of the while-loop with the popped entry
AstarPop(st, top, goal, blocked, g, ts) ==
  IF top[3] = goal THEN ReconstructPath(st.came_from, top[3])
  ELSE AstarLoop(Relax(NeighborsIn(g, top[3]), top[3],
                       [st EXCEPT !.open = st.open \ {top}],
                       goal, blocked, ts),
                 goal, blocked, g, ts)

\* astar(graph, start, goal, blocked, tiles)
AstarOn(g, start, goal, blocked, ts) ==
  IF start \notin DOMAIN g \/ goal \notin DOMAIN g THEN <<>>
  ELSE AstarLoop([open |-> {<<h(start, goal), 0, start>>},
                  came_from |-> [p \in DOMAIN g |-> NoPos],
                  g_score |-> [p \in DOMAIN g |-> IF p = start THEN 0 ELSE Inf],
                  counter |-> 0],
                 goal, blocked, g, ts)

astar(start, goal, blocked) == AstarOn(graph, start, goal, blocked, tiles)

\* ------------------------------------------------------------------------
\* State
\* ------------------------------------------------------------------------
VARIABLES
  agvs,             \* list of AGV objects (list order = update order)
  carts,            \* list of Cart objects
  pending_jobs,     \* Dispatcher.pending_jobs
  active_jobs,      \* Dispatcher.active_jobs
  completed_orders, \* Dispatcher.completed_orders
  cart_start_times, \* Dispatcher.cart_start_times (-1: no entry)
  cycle_times,      \* Dispatcher.cycle_times
  next_job_id,      \* Job._next_id
  sim_elapsed,      \* run_headless: sim_elapsed
  tick_dt,          \* run_headless: tick_dt
  horizon,          \* run_headless: sim_duration
  pc,               \* position in the tick: index of the AGV to update next,
                    \* then Len(agvs)+1 = cart timers, Len(agvs)+2 = dispatcher
  log               \* what the last step did (assignments, completions, ...)

vars == <<agvs, carts, pending_jobs, active_jobs, completed_orders,
          cart_start_times, cycle_times, next_job_id, sim_elapsed, tick_dt,
          horizon, pc, log>>

\* AGV.__init__
NewAGV(pos) ==
  [state |-> "idle", pos |-> pos, target |-> NoPos, path |-> <<>>,
   path_index |-> 0, path_progress |-> 0, carrying_cart |-> 0,
   action_timer |-> 0, current_job |-> 0, blocked_timer |-> 0,
   last_reroute |-> 0, is_blocked |-> FALSE, just_rerouted |-> FALSE]

\* Cart.__init__
NewCart(pos) ==
  [pos |-> pos, state |-> "spawned", carried_by |-> 0, order |-> NoOrder,
   process_timer |-> 0]

\* Job.__init__
NewJob(id, job_type, cart, target_pos, station_id) ==
  [job_id |-> id, job_type |-> job_type, cart |-> cart,
   target_pos |-> target_pos, station_id |-> station_id, assigned_agv |-> 0]

AgvIds(ag) == 1..Len(ag)
CartIds(cs) == 1..Len(cs)

\* ------------------------------------------------------------------------
\* AGV.update (agv.py)
\* ------------------------------------------------------------------------
HasNext(a) == a.path # <<>> /\ a.path_index < Len(a.path) - 1
NextTile(a) == At(a.path, a.path_index + 1)

\* a collision check that counts stationary carts for every AGV
Occupied_CartsAlways(ag, cs, i, next_tile) ==
  \/ \E o \in AgvIds(ag) : o # i /\ ag[o].pos = next_tile
  \/ \E c \in CartIds(cs) : cs[c].carried_by = 0 /\ cs[c].pos = next_tile

\* a collision check that looks at stationary carts only
Occupied_IgnoresAgvs(ag, cs, i, next_tile) ==
  /\ ag[i].carrying_cart # 0
  /\ cs[ag[i].carrying_cart].carried_by = i
  /\ \E c \in CartIds(cs) : cs[c].carried_by = 0 /\ cs[c].pos = next_tile

\* a collision check that looks at the other AGVs only
Occupied_AgvsOnly(ag, cs, i, next_tile) ==
  \E o \in AgvIds(ag) : o # i /\ ag[o].pos = next_tile

\* a collision check that sees only the AGVs already updated in this tick
Occupied_EarlierOnly(ag, cs, i, next_tile) ==
  \/ \E o \in AgvIds(ag) : o < i /\ ag[o].pos = next_tile
  \/ /\ ag[i].carrying_cart # 0
     /\ cs[ag[i].carrying_cart].carried_by = i
     /\ \E c \in CartIds(cs) : cs[c].carried_by = 0 /\ cs[c].pos = next_tile

\* a collision check that trusts AGVs on a route to move away
Occupied_StoppedOnly(ag, cs, i, next_tile) ==
  \/ \E o \in AgvIds(ag) : o # i /\ ~HasNext(ag[o]) /\ ag[o].pos = next_tile
  \/ /\ ag[i].carrying_cart # 0
     /\ cs[ag[i].carrying_cart].carried_by = i
     /\ \E c \in CartIds(cs) : cs[c].carried_by = 0 /\ cs[c].pos = next_tile

\* L1 collision check: another AGV on next_tile, or (only when this AGV
\* really carries its cart) a stationary cart on next_tile
Occupied(ag, cs, i, next_tile) ==
  \/ \E o \in AgvIds(ag) : o # i /\ ag[o].pos = next_tile
  \/ /\ ag[i].carrying_cart # 0
     /\ cs[ag[i].carrying_cart].carried_by = i
     /\ \E c \in CartIds(cs) : cs[c].carried_by = 0 /\ cs[c].pos = next_tile

\* positions of the other AGVs and the tiles they are about to enter
BlockedTiles(ag, i) ==
  UNION {{ag[o].pos} \cup (IF HasNext(ag[o]) THEN {NextTile(ag[o])} ELSE {}) :
           o \in AgvIds(ag) \ {i}}

\* a cart position that follows the AGV as soon as carrying_cart is set
CartFollows_Always(cs, a) ==
  IF a.carrying_cart # 0 THEN [cs EXCEPT ![a.carrying_cart].pos = a.pos] ELSE cs

\* cart position follows the AGV only while the cart's state is in_transit
CartFollows(cs, a) ==
  IF a.carrying_cart # 0 /\ cs[a.carrying_cart].state = "in_transit"
    THEN [cs EXCEPT ![a.carrying_cart].pos = a.pos]
    ELSE cs

\* an arrival that starts the pickup and dropoff timers at zero
Arrive_NoWait(ag, cs, i) ==
  LET a == ag[i] IN
  IF a.path_index >= Len(a.path) - 1
    THEN LET a2 == [a EXCEPT !.pos = Last(a.path), !.path_progress = 0,
                             !.target = NoPos, !.path = <<>>, !.path_index = 0,
                             !.is_blocked = FALSE, !.blocked_timer = 0,
                             !.just_rerouted = FALSE]
             a3 == IF a.state = "moving_to_pickup"
                     THEN [a2 EXCEPT !.state = "picking_up", !.action_timer = 0]
                   ELSE IF a.state = "moving_to_dropoff"
                     THEN [a2 EXCEPT !.state = "dropping_off", !.action_timer = 0]
                   ELSE [a2 EXCEPT !.state = "idle"]
         IN [agvs |-> [ag EXCEPT ![i] = a3], carts |-> CartFollows(cs, a3)]
    ELSE [agvs |-> ag, carts |-> cs]

\* "Arrived at destination?"
Arrive(ag, cs, i) ==
  LET a == ag[i] IN
  IF a.path_index >= Len(a.path) - 1
    THEN LET a2 == [a EXCEPT !.pos = Last(a.path), !.path_progress = 0,
                             !.target = NoPos, !.path = <<>>, !.path_index = 0,
                             !.is_blocked = FALSE, !.blocked_timer = 0,
                             !.just_rerouted = FALSE]
             a3 == IF a.state = "moving_to_pickup"
                     THEN [a2 EXCEPT !.state = "picking_up", !.action_timer = PICKUP_TIME]
                   ELSE IF a.state = "moving_to_dropoff"
                     THEN [a2 EXCEPT !.state = "dropping_off", !.action_timer = DROPOFF_TIME]
                   ELSE [a2 EXCEPT !.state = "idle"]
         IN [agvs |-> [ag EXCEPT ![i] = a3], carts |-> CartFollows(cs, a3)]
    ELSE [agvs |-> ag, carts |-> cs]

RECURSIVE MoveLoop(_, _, _, _)
RECURSIVE OnOccupied(_, _, _, _, _, _)

\* an occupied-tile step that takes the alternative route whatever its first
\* step is
OnOccupied_AnyAlt(ag, cs, i, dt, next_tile, alt) ==
  IF ~ag[i].just_rerouted /\ Len(alt) > 1
    THEN MoveLoop([ag EXCEPT ![i] =
                     [@ EXCEPT !.path = alt, !.path_index = 0,
                               !.path_progress = Min2(@, 99),
                               !.just_rerouted = TRUE,
                               !.is_blocked = FALSE,
                               !.blocked_timer = 0]],
                  cs, i, dt)
    ELSE [agvs |-> [ag EXCEPT ![i] =
                      [@ EXCEPT !.path_progress = 99,
                                !.is_blocked = TRUE,
                                !.blocked_timer = @ + dt]],
          carts |-> cs]

\* the next tile is occupied: take the alternative route alt when there is
\* one that leaves by another tile (once per tick), else wait
OnOccupied(ag, cs, i, dt, next_tile, alt) ==
  IF ~ag[i].just_rerouted /\ Len(alt) > 1 /\ At(alt, 1) # next_tile
    THEN MoveLoop([ag EXCEPT ![i] =
                     [@ EXCEPT !.path = alt, !.path_index = 0,
                               !.path_progress = Min2(@, 99),
                               !.just_rerouted = TRUE,
                               !.is_blocked = FALSE,
                               !.blocked_timer = 0]],
                  cs, i, dt)
    ELSE [agvs |-> [ag EXCEPT ![i] =
                      [@ EXCEPT !.path_progress = 99,
                                !.is_blocked = TRUE,
                                !.blocked_timer = @ + dt]],
          carts |-> cs]

\* the while-loop of the movement section
MoveLoop(ag, cs, i, dt) ==
  LET a == ag[i] IN
  IF a.path_progress >= 100 /\ a.path_index < Len(a.path) - 1
    THEN
      IF Occupied(ag, cs, i, NextTile(a))
        THEN OnOccupied(ag, cs, i, dt, NextTile(a),
                        astar(a.pos, IF a.target # NoPos THEN a.target ELSE Last(a.path),
                              BlockedTiles(ag, i)))
        ELSE \* clear to advance
          LET a2 == [a EXCEPT !.just_rerouted = FALSE, !.is_blocked = FALSE,
                              !.blocked_timer = 0,
                              !.path_progress = a.path_progress - 100,
                              !.path_index = a.path_index + 1,
                              !.pos = NextTile(a)]
          IN MoveLoop([ag EXCEPT ![i] = a2], CartFollows(cs, a2), i, dt)
    ELSE Arrive(ag, cs, i)

\* an update whose drop-off leaves the cart's carried_by pointing at the AGV
AGV_update_KeepsLink(ag, cs, i, dt) ==
  LET a == ag[i] IN
  IF a.state = "picking_up"
    THEN IF a.action_timer - dt <= 0
           THEN [agvs |-> [ag EXCEPT ![i].action_timer = 0, ![i].state = "idle"],
                 carts |-> IF a.carrying_cart # 0
                             THEN [cs EXCEPT ![a.carrying_cart].state = "in_transit",
                                             ![a.carrying_cart].carried_by = i,
                                             ![a.carrying_cart].pos = a.pos]
                             ELSE cs]
           ELSE [agvs |-> [ag EXCEPT ![i].action_timer = a.action_timer - dt],
                 carts |-> cs]
  ELSE IF a.state = "dropping_off"
    THEN IF a.action_timer - dt <= 0
           THEN [agvs |-> [ag EXCEPT ![i].action_timer = 0, ![i].state = "idle",
                                     ![i].carrying_cart = 0],
                 carts |-> IF a.carrying_cart # 0
                             THEN [cs EXCEPT ![a.carrying_cart].state = "idle",
                                             ![a.carrying_cart].pos = a.pos]
                             ELSE cs]
           ELSE [agvs |-> [ag EXCEPT ![i].action_timer = a.action_timer - dt],
                 carts |-> cs]
  ELSE IF a.state = "idle" \/ a.path = <<>>
    THEN [agvs |-> ag, carts |-> cs]
  ELSE MoveLoop([ag EXCEPT ![i].just_rerouted = FALSE,
                           ![i].path_progress = a.path_progress + AGV_SPEED * dt],
                cs, i, dt)

AGV_update(ag, cs, i, dt) ==
  LET a == ag[i] IN
  IF a.state = "picking_up"
    THEN IF a.action_timer - dt <= 0
           THEN [agvs |-> [ag EXCEPT ![i].action_timer = 0, ![i].state = "idle"],
                 carts |-> IF a.carrying_cart # 0
                             THEN [cs EXCEPT ![a.carrying_cart].state = "in_transit",
                                             ![a.carrying_cart].carried_by = i,
                                             ![a.carrying_cart].pos = a.pos]
                             ELSE cs]
           ELSE [agvs |-> [ag EXCEPT ![i].action_timer = a.action_timer - dt],
                 carts |-> cs]
  ELSE IF a.state = "dropping_off"
    THEN IF a.action_timer - dt <= 0
           THEN [agvs |-> [ag EXCEPT ![i].action_timer = 0, ![i].state = "idle",
                                     ![i].carrying_cart = 0],
                 carts |-> IF a.carrying_cart # 0
                             THEN [cs EXCEPT ![a.carrying_cart].state = "idle",
                                             ![a.carrying_cart].carried_by = 0,
                                             ![a.carrying_cart].pos = a.pos]
                             ELSE cs]
           ELSE [agvs |-> [ag EXCEPT ![i].action_timer = a.action_timer - dt],
                 carts |-> cs]
  ELSE IF a.state = "idle" \/ a.path = <<>>
    THEN [agvs |-> ag, carts |-> cs]
  ELSE MoveLoop([ag EXCEPT ![i].just_rerouted = FALSE,
                           ![i].path_progress = a.path_progress + AGV_SPEED * dt],
                cs, i, dt)

\* ------------------------------------------------------------------------
\* Cart.update (models.py)
\* ------------------------------------------------------------------------
\* a cart whose process timer never counts down
Cart_update_NoCountdown(c, dt) == c

\* a countdown that takes off twice the time that has passed
Cart_update_Double(c, dt) ==
  IF c.state \in {"at_box_depot", "picking", "at_packoff"} /\ c.process_timer > 0
    THEN [c EXCEPT !.process_timer =
            IF c.process_timer - 2 * dt < 0 THEN 0 ELSE c.process_timer - 2 * dt]
    ELSE c

Cart_update(c, dt) ==
  IF c.state \in {"at_box_depot", "picking", "at_packoff"} /\ c.process_timer > 0
    THEN [c EXCEPT !.process_timer =
            IF c.process_timer - dt < 0 THEN 0 ELSE c.process_timer - dt]
    ELSE c

\* ------------------------------------------------------------------------
\* Order (models.py)
\* ------------------------------------------------------------------------
RECURSIVE SortedSeq(_)
SortedSeq(S) ==
  IF S = {} THEN <<>>
  ELSE LET m == CHOOSE x \in S : \A y \in S : x <= y
       IN <<m>> \o SortedSeq(S \ {m})

\* Order.__init__ with the random picks drawn
NewOrder(picks) ==
  [picks |-> picks, stations_to_visit |-> SortedSeq(Range(picks)),
   completed_stations |-> <<>>, present |-> TRUE]

items_at_station(o, station_num) ==
  Cardinality({k \in 1..Len(o.picks) : o.picks[k] = station_num})

\* a remaining list that forgets what was completed
Remaining_All(o) == o.stations_to_visit

\* [s for s in stations_to_visit if s not in completed_stations]
Remaining(o) ==
  SelectSeq(o.stations_to_visit, LAMBDA s : s \notin Range(o.completed_stations))

\* 0 stands for None
next_station(o) == IF Remaining(o) = <<>> THEN 0 ELSE Head(Remaining(o))

complete_station(o, station_num) ==
  [o EXCEPT !.completed_stations = Append(@, station_num)]

all_picked(o) == Len(o.completed_stations) = Len(o.stations_to_visit)

\* the pick lists random.randint can draw, up to the bound
PickLists == UNION {[1..n -> StationNums] : n \in 1..MaxPicks}

\* [pos for pos, tile in tiles.items() if tile_type in types and station_id == sid]
TilesOfStation(ts, order, types, sid) ==
  SelectSeq(order, LAMBDA p : ts[p].tile_type \in types /\ ts[p].station_id = sid)

\* Dispatcher.__init__: _station_tiles[(station_id, tile_type)]
station_tiles(sid, tt) == TilesOfStation(tiles, TileOrder, {tt}, sid)

\* a reservation set that leaves out the job targets
reserved_tiles_NoTargets(w) ==
  {w.carts[c].pos : c \in {c \in CartIds(w.carts) : w.carts[c].carried_by = 0}}

reserved_tiles(w) ==
  {w.carts[c].pos : c \in {c \in CartIds(w.carts) : w.carts[c].carried_by = 0}}
  \cup {w.pending_jobs[k].target_pos : k \in 1..Len(w.pending_jobs)}
  \cup {w.active_jobs[k].target_pos : k \in 1..Len(w.active_jobs)}

StationTileType(sid) == IF sid \in {"S1", "S2"} THEN "pick_station" ELSE "parking"

\* a fill count that looks at stationary carts only
get_station_fill_CartsOnly(w) ==
  [sid \in Range(StationIds) |->
     [current |-> Cardinality({p \in Range(station_tiles(sid, StationTileType(sid))) :
                                 \E c \in CartIds(w.carts) :
                                   w.carts[c].carried_by = 0 /\ w.carts[c].pos = p}),
      capacity |-> STATIONS[sid]]]

\* {station_id: (current, capacity)}; the fill rate is current / capacity
get_station_fill(w) ==
  [sid \in Range(StationIds) |->
     [current |-> Cardinality({p \in Range(station_tiles(sid, StationTileType(sid))) :
                                 p \in reserved_tiles(w)}),
      capacity |-> STATIONS[sid]]]

\* (priority, dist, s) of station s: tier by fill rate, distance to the
\* station's first tile
Candidate(f, st, s, cart_pos) ==
  <<IF 2 * f.current <= f.capacity THEN 1
    ELSE IF 4 * f.current <= 3 * f.capacity THEN 2 ELSE 3,
    IF st # <<>> THEN Manhattan(cart_pos, st[1]) ELSE Inf,
    s>>

\* a ranking by distance before tier
BestOf_NearestFirst(candidates) ==
  IF candidates = {} THEN 0
  ELSE (CHOOSE a \in candidates : \A b \in candidates :
          \/ a[2] < b[2]
          \/ a[2] = b[2] /\ a[1] < b[1]
          \/ a[2] = b[2] /\ a[1] = b[1] /\ a[3] <= b[3])[3]

\* candidates.sort(); return candidates[0][2]; 0 stands for None
BestOf(candidates) ==
  IF candidates = {} THEN 0
  ELSE (CHOOSE a \in candidates : \A b \in candidates :
          \/ a[1] < b[1]
          \/ a[1] = b[1] /\ a[2] < b[2]
          \/ a[1] = b[1] /\ a[2] = b[2] /\ a[3] <= b[3])[3]

\* the stations of remaining_stations that are not full, ranked
PickAmong(fill, remaining_stations, cart_pos) ==
  BestOf({Candidate(fill[Sid(s)], station_tiles(Sid(s), "pick_station"), s, cart_pos) :
            s \in {s \in Range(remaining_stations) :
                     fill[Sid(s)].current < fill[Sid(s)].capacity}})

pick_best_station(w, remaining_stations, cart_pos) ==
  PickAmong(get_station_fill(w), remaining_stations, cart_pos)

\* the first of a list of tiles, NoPos (None) when it is empty
FirstOr(free) == IF free = <<>> THEN NoPos ELSE Head(free)

\* first unreserved tile of the station
find_tile(w, station_id, tile_type) ==
  FirstOr(SelectSeq(station_tiles(station_id, tile_type),
                    LAMBDA p : p \notin reserved_tiles(w)))

\* the tile of free nearest to from, the first in list order on ties; NoPos
\* (None) when free is empty
Nearest(free, from) ==
  IF free = <<>> THEN NoPos
  ELSE free[CHOOSE k \in 1..Len(free) :
              /\ \A j \in 1..Len(free) :
                   Manhattan(free[k], from) <= Manhattan(free[j], from)
              /\ \A j \in 1..(k - 1) :
                   Manhattan(free[j], from) > Manhattan(free[k], from)]

\* a buffer search that takes the first unreserved tile in tile order
find_buffer_spot_First(w, near_pos) ==
  FirstOr(SelectSeq(TilesOfStation(tiles, TileOrder, {"parking"}, NoStation),
                    LAMBDA p : p \notin reserved_tiles(w)))

\* nearest unreserved unaffiliated parking tile
find_buffer_spot(w, near_pos) ==
  Nearest(SelectSeq(TilesOfStation(tiles, TileOrder, {"parking"}, NoStation),
                    LAMBDA p : p \notin reserved_tiles(w)),
          near_pos)

\* a job test that looks at pending_jobs only
has_job_PendingOnly(w, c) ==
  \E k \in 1..Len(w.pending_jobs) : w.pending_jobs[k].cart = c

has_job(w, c) ==
  \/ \E k \in 1..Len(w.pending_jobs) : w.pending_jobs[k].cart = c
  \/ \E k \in 1..Len(w.active_jobs) : w.active_jobs[k].cart = c

\* self.pending_jobs.append(Job(...))
AddJob(w, job_type, c, target, sid) ==
  [w EXCEPT !.pending_jobs = Append(@, NewJob(w.next_job_id, job_type, c, target, sid)),
            !.next_job_id = @ + 1,
            !.log = Append(@, [kind |-> "create", job_id |-> w.next_job_id,
                               cart |-> c, job_type |-> job_type,
                               target_pos |-> target, station_id |-> sid,
                               order |-> w.carts[c].order,
                               cart_state |-> w.carts[c].state,
                               process_timer |-> w.carts[c].process_timer])]

\* a job placement that never falls back to a buffer tile
PlaceJob_NoBuffer(w, c, job_type, sid, target, buffer, spot) ==
  IF target # NoPos THEN AddJob(w, job_type, c, target, sid) ELSE w

\* append a job to target when there is one; otherwise, where the source
\* buffers (buffer), a move_to_buffer job to spot when there is one
PlaceJob(w, c, job_type, sid, target, buffer, spot) ==
  IF target # NoPos THEN AddJob(w, job_type, c, target, sid)
  ELSE IF buffer /\ spot # NoPos
    THEN AddJob(w, "move_to_buffer", c, spot, NoStation)
  ELSE w

\* ns = self._pick_best_station(...); if ns is None: ns = order.next_station()
BestOrNext(best, next) == IF best = 0 THEN next ELSE best

\* the move_to_pick attempt for station ns
MoveToPick(w, c, buffer, ns) ==
  PlaceJob(w, c, "move_to_pick", Sid(ns), find_tile(w, Sid(ns), "pick_station"),
           buffer, find_buffer_spot(w, w.carts[c].pos))

\* the move_to_pick attempt shared by at_box_depot, picking and waiting carts
\* (buffer: whether a full station sends the cart to a buffer tile)
TryMoveToPick(w, c, buffer) ==
  MoveToPick(w, c, buffer,
             BestOrNext(pick_best_station(w, Remaining(w.carts[c].order), w.carts[c].pos),
                        next_station(w.carts[c].order)))

TryMoveToPackoff(w, c, buffer) ==
  PlaceJob(w, c, "move_to_packoff", NoStation, find_tile(w, "Pack_off", "parking"),
           buffer, find_buffer_spot(w, w.carts[c].pos))

TryBoxDepot(w, c, job_type) ==
  PlaceJob(w, c, job_type, NoStation, find_tile(w, "Box_Depot", "parking"),
           FALSE, NoPos)

\* carts that get a fresh Order in this update
NeedsOrder(w, c) ==
  /\ ~has_job(w, c)
  /\ w.carts[c].state = "at_box_depot"
  /\ w.carts[c].process_timer <= 0
  /\ ~w.carts[c].order.present

\* self.cart_start_times[cart_id] = now, when the pickup job was appended
Started(w, w2, c, now) ==
  IF w2 # w THEN [w2 EXCEPT !.cart_start_times[c] = now] ELSE w

\* a next leg that sends the cart to Pack-off after its first station
NextLeg_OneStation(w, c, buffer) ==
  IF w.carts[c].order.completed_stations = <<>> THEN TryMoveToPick(w, c, buffer)
  ELSE TryMoveToPackoff(w, c, buffer)

\* the branch of a cart that holds an order: move_to_pick while a station
\* is left, move_to_packoff once all are picked
NextLeg(w, c, buffer) ==
  IF next_station(w.carts[c].order) # 0 THEN TryMoveToPick(w, c, buffer)
  ELSE IF all_picked(w.carts[c].order) THEN TryMoveToPackoff(w, c, buffer)
  ELSE w

\* cart.order = Order() when the cart has none
WithOrder(w, c, picks) ==
  IF w.carts[c].order.present THEN w
  ELSE [w EXCEPT !.carts[c].order = NewOrder(picks[c])]

\* the move_to_pick attempt of a cart at the depot
FirstLeg(w, c) ==
  IF next_station(w.carts[c].order) # 0 THEN TryMoveToPick(w, c, FALSE) ELSE w

\* body of the for-loop of _create_jobs for one cart
CreateJobFor(w, c, picks, now) ==
  LET cart == w.carts[c] IN
  IF has_job(w, c) THEN w
  ELSE IF cart.state = "spawned" /\ cart.carried_by = 0
    THEN Started(w, TryBoxDepot(w, c, "pickup_to_box_depot"), c, now)
  ELSE IF cart.state = "at_box_depot" /\ cart.process_timer <= 0
    THEN FirstLeg(WithOrder(w, c, picks), c)
  ELSE IF cart.state = "picking" /\ cart.process_timer <= 0
    THEN IF ~cart.order.present THEN w ELSE NextLeg(w, c, TRUE)
  ELSE IF cart.state = "at_packoff" /\ cart.process_timer <= 0
    THEN TryBoxDepot(w, c, "return_to_box_depot")
  ELSE IF cart.state = "waiting_for_station" /\ cart.carried_by = 0
    THEN IF ~cart.order.present THEN w ELSE NextLeg(w, c, FALSE)
  ELSE IF cart.state = "completed" /\ cart.carried_by = 0
    THEN TryBoxDepot(w, c, "return_to_box_depot")
  ELSE w

RECURSIVE CreateJobsFrom(_, _, _, _)
CreateJobsFrom(w, c, picks, now) ==
  IF c > Len(w.carts) THEN w
  ELSE CreateJobsFrom(CreateJobFor(w, c, picks, now), c + 1, picks, now)

create_jobs(w, picks, now) == CreateJobsFrom(w, 1, picks, now)

\* a planning step that sets target and state before it looks at the route
OnRoute_TargetFirst(a, route, goal, state, cart) ==
  IF route = <<>> THEN [ok |-> FALSE, agv |-> [a EXCEPT !.target = goal, !.state = state]]
  ELSE [ok |-> TRUE,
        agv |-> [a EXCEPT !.path = route, !.path_index = 0, !.path_progress = 0,
                          !.target = goal, !.carrying_cart = cart, !.state = state]]

\* the AGV on the route astar returned (<<>>: no route, nothing changes)
OnRoute(a, route, goal, state, cart) ==
  IF route = <<>> THEN [ok |-> FALSE, agv |-> a]
  ELSE [ok |-> TRUE,
        agv |-> [a EXCEPT !.path = route, !.path_index = 0, !.path_progress = 0,
                          !.target = goal, !.carrying_cart = cart, !.state = state]]

set_destination(a, goal, blocked) ==
  OnRoute(a, astar(a.pos, goal, blocked), goal, "moving", a.carrying_cart)

\* the highway tile at the exit of the AGV spawn tile
AGV_SPAWN_TILE == <<3, 3>>

return_to_spawn(a) ==
  OnRoute(a, astar(a.pos, AGV_SPAWN_TILE, {}), AGV_SPAWN_TILE, "returning_to_spawn",
          a.carrying_cart)

pickup_cart(a, c, cart_pos, blocked) ==
  OnRoute(a, astar(a.pos, cart_pos, blocked), cart_pos, "moving_to_pickup", c)

start_dropoff(a, goal, blocked) ==
  OnRoute(a, astar(a.pos, goal, blocked), goal, "moving_to_dropoff", a.carrying_cart)

\* goal = self.target or (self.path[-1] if self.path else None)
RerouteGoal(a) ==
  IF a.target # NoPos THEN a.target
  ELSE IF a.path # <<>> THEN Last(a.path) ELSE NoPos

\* a re-route that takes any route found
Rerouted_AcceptsSame(a, route) ==
  IF route = <<>> THEN [ok |-> FALSE, agv |-> a]
  ELSE [ok |-> TRUE,
        agv |-> [a EXCEPT !.path = route, !.path_index = 0, !.path_progress = 0,
                          !.blocked_timer = 0, !.is_blocked = FALSE]]

\* the AGV on the new route unless there is none or it starts with the same
\* next tile
Rerouted(a, route) ==
  IF route = <<>> THEN [ok |-> FALSE, agv |-> a]
  ELSE IF HasNext(a) /\ Len(route) > 1 /\ NextTile(a) = At(route, 1)
    THEN [ok |-> FALSE, agv |-> a]
  ELSE [ok |-> TRUE,
        agv |-> [a EXCEPT !.path = route, !.path_index = 0, !.path_progress = 0,
                          !.blocked_timer = 0, !.is_blocked = FALSE]]

\* AGV.reroute: [ok, agv]
reroute(ag, i) ==
  Rerouted(ag[i], astar(ag[i].pos, RerouteGoal(ag[i]), BlockedTiles(ag, i)))

OtherPositions(ag, i) == {ag[o].pos : o \in AgvIds(ag) \ {i}}

\* ------------------------------------------------------------------------
\* Dispatcher._assign_jobs
\* ------------------------------------------------------------------------
\* a free test that looks at the state only
IsFree_IdleOnly(a) == a.state = "idle"

IsFree(a) == a.state = "idle" /\ a.current_job = 0 /\ a.carrying_cart = 0

\* the free list without the [:slots] slice
FreeAgvs_NoSlice(ag, slots) ==
  SelectSeq([k \in 1..Len(ag) |-> k],
            LAMBDA k : ag[k].state = "idle" /\ ag[k].current_job = 0
                       /\ ag[k].carrying_cart = 0)

\* free_agvs = [a for a in agvs if ...][:slots]
FreeAgvs(ag, slots) ==
  LET all == SelectSeq([k \in 1..Len(ag) |-> k], LAMBDA k : IsFree(ag[k]))
  IN SubSeq(all, 1, Min2(slots, Len(all)))

\* min(free_agvs, key=distance to the cart): the first of the nearest
BestAgv(ag, free_agvs, cart_pos) ==
  LET k == CHOOSE k \in 1..Len(free_agvs) :
             /\ \A j \in 1..Len(free_agvs) :
                  Manhattan(ag[free_agvs[k]].pos, cart_pos)
                    <= Manhattan(ag[free_agvs[j]].pos, cart_pos)
             /\ \A j \in 1..(k - 1) :
                  Manhattan(ag[free_agvs[j]].pos, cart_pos)
                    > Manhattan(ag[free_agvs[k]].pos, cart_pos)
  IN free_agvs[k]

RECURSIVE AssignLoop(_, _, _, _)

\* the outcome r of best_agv.pickup_cart(job.cart, ...) for pending job k
Assigned(w, k, free_agvs, assigned, best_agv, r) ==
  LET job == w.pending_jobs[k] IN
  IF r.ok
    THEN AssignLoop(
           [w EXCEPT !.agvs[best_agv] = [r.agv EXCEPT !.current_job = job.job_id],
                     !.active_jobs = Append(@, [job EXCEPT !.assigned_agv = best_agv]),
                     !.log = Append(@, [kind |-> "assign", job_id |-> job.job_id,
                                        agv |-> best_agv,
                                        cart_pos |-> w.carts[job.cart].pos,
                                        agvs_before |-> w.agvs,
                                        active_before |-> Len(w.active_jobs)])],
           k + 1, RemoveFirst(free_agvs, best_agv), assigned \cup {job.job_id})
    ELSE AssignLoop([w EXCEPT !.agvs[best_agv] = r.agv,
                              !.log = Append(@, [kind |-> "no_route",
                                                 method |-> "pickup_cart",
                                                 job_id |-> job.job_id, agv |-> best_agv,
                                                 before |-> w.agvs[best_agv],
                                                 after |-> r.agv])],
                    k + 1, free_agvs, assigned)

\* pending job k goes to best_agv if it finds a route to the cart
AssignBest(w, k, free_agvs, assigned, best_agv) ==
  Assigned(w, k, free_agvs, assigned, best_agv,
           pickup_cart(w.agvs[best_agv], w.pending_jobs[k].cart,
                       w.carts[w.pending_jobs[k].cart].pos,
                       OtherPositions(w.agvs, best_agv)))

\* the for-loop over pending_jobs; assigned: ids of the jobs assigned so far
AssignLoop(w, k, free_agvs, assigned) ==
  IF k > Len(w.pending_jobs) \/ free_agvs = <<>>
    THEN [w EXCEPT !.pending_jobs = SelectSeq(@, LAMBDA j : j.job_id \notin assigned)]
  ELSE AssignBest(w, k, free_agvs, assigned,
                  BestAgv(w.agvs, free_agvs, w.carts[w.pending_jobs[k].cart].pos))

assign_jobs(w) ==
  LET slots == MAX_CONCURRENT_DISPATCHES - Len(w.active_jobs)
  IN IF slots <= 0 THEN w
     ELSE AssignLoop(w, 1, FreeAgvs(w.agvs, slots), {})

\* ------------------------------------------------------------------------
\* Dispatcher._set_transit_state, _complete_job, _progress_jobs
\* ------------------------------------------------------------------------
set_transit_state(job_type) ==
  CASE job_type = "pickup_to_box_depot" -> "to_box_depot"
    [] job_type = "move_to_pick" -> "in_transit_to_pick"
    [] job_type = "move_to_packoff" -> "in_transit_to_packoff"
    [] job_type = "return_to_box_depot" -> "to_box_depot"
    [] job_type = "move_to_buffer" -> "in_transit"
    [] OTHER -> "in_transit"

\* a completion that leaves the order on a cart returned to the depot
CompletedCart_KeepsOrder(cart, job) ==
  IF job.job_type = "return_to_box_depot"
    THEN [cart EXCEPT !.state = "at_box_depot", !.process_timer = BOX_DEPOT_TIME]
    ELSE [cart EXCEPT !.state = "waiting_for_station"]

\* the cart after the job-type branch of _complete_job
CompletedCart(cart, job) ==
  CASE job.job_type = "pickup_to_box_depot" ->
         [cart EXCEPT !.state = "at_box_depot", !.process_timer = BOX_DEPOT_TIME]
    [] job.job_type = "move_to_pick" ->
         [cart EXCEPT !.state = "picking",
                      !.process_timer =
                         PICK_TIME_PER_ITEM *
                           (IF cart.order.present
                              THEN items_at_station(cart.order, StationNum(job.station_id))
                              ELSE 1),
                      !.order = IF cart.order.present
                                  THEN complete_station(cart.order, StationNum(job.station_id))
                                  ELSE cart.order]
    [] job.job_type = "move_to_packoff" ->
         [cart EXCEPT !.state = "at_packoff", !.process_timer = PACKOFF_TIME]
    [] job.job_type = "move_to_buffer" ->
         [cart EXCEPT !.state = "waiting_for_station"]
    [] job.job_type = "return_to_box_depot" ->
         [cart EXCEPT !.state = "at_box_depot", !.process_timer = BOX_DEPOT_TIME,
                      !.order = NoOrder]
    [] OTHER -> cart

\* a completion that leaves the job on its AGV
complete_job_KeepsAgvJob(w, job, now) ==
  LET c == job.cart
      agv == job.assigned_agv
      returned == job.job_type = "return_to_box_depot"
      start_t == w.cart_start_times[c]
  IN [w EXCEPT
        !.carts[c] = CompletedCart(w.carts[c], job),
        !.completed_orders = IF returned THEN @ + 1 ELSE @,
        !.cart_start_times[c] = IF returned THEN -1 ELSE @,
        !.cycle_times = IF returned /\ start_t # -1 THEN Append(@, now - start_t) ELSE @,
        !.active_jobs = SelectSeq(@, LAMBDA j : j.job_id # job.job_id),
        !.log = Append(@, [kind |-> "complete", job |-> job,
                           cart_before |-> w.carts[c],
                           agv_before |-> IF agv # 0 THEN w.agvs[agv] ELSE NewAGV(NoPos),
                           order_after |-> CompletedCart(w.carts[c], job).order])]

complete_job(w, job, now) ==
  LET c == job.cart
      agv == job.assigned_agv
      returned == job.job_type = "return_to_box_depot"
      start_t == w.cart_start_times[c]
  IN [w EXCEPT
        !.carts[c] = CompletedCart(w.carts[c], job),
        !.completed_orders = IF returned THEN @ + 1 ELSE @,
        !.cart_start_times[c] = IF returned THEN -1 ELSE @,
        !.cycle_times = IF returned /\ start_t # -1 THEN Append(@, now - start_t) ELSE @,
        !.agvs = IF agv # 0 THEN [@ EXCEPT ![agv].current_job = 0] ELSE @,
        !.active_jobs = SelectSeq(@, LAMBDA j : j.job_id # job.job_id),
        !.log = Append(@, [kind |-> "complete", job |-> job,
                           cart_before |-> w.carts[c],
                           agv_before |-> IF agv # 0 THEN w.agvs[agv] ELSE NewAGV(NoPos),
                           order_after |-> CompletedCart(w.carts[c], job).order])]

\* a progress step that completes the job as soon as its AGV is idle
ProgressJob_IdleCompletes(w, job, now) ==
  IF job.assigned_agv = 0 THEN w
  ELSE IF w.agvs[job.assigned_agv].state = "idle" THEN complete_job(w, job, now)
  ELSE w

\* body of the for-loop of _progress_jobs for one job of the snapshot
ProgressJob(w, job, now) ==
  LET agv == job.assigned_agv
      a == w.agvs[agv]
      r == start_dropoff(a, job.target_pos, OtherPositions(w.agvs, agv))
  IN IF agv = 0 THEN w
     ELSE IF a.state = "idle" /\ a.carrying_cart # 0 /\ a.carrying_cart = job.cart
       THEN [w EXCEPT !.carts[job.cart].state = set_transit_state(job.job_type),
                      !.agvs[agv] = r.agv,
                      !.log = IF r.ok THEN @
                              ELSE Append(@, [kind |-> "no_route",
                                              method |-> "start_dropoff",
                                              job_id |-> job.job_id, agv |-> agv,
                                              before |-> a, after |-> r.agv])]
     ELSE IF a.state = "idle" /\ a.carrying_cart = 0 /\ w.carts[job.cart].carried_by = 0
       THEN complete_job(w, job, now)
     ELSE w

\* for job in list(self.active_jobs)
RECURSIVE ProgressLoop(_, _, _)
ProgressLoop(w, snapshot, now) ==
  IF snapshot = <<>> THEN w
  ELSE ProgressLoop(ProgressJob(w, Head(snapshot), now), Tail(snapshot), now)

progress_jobs(w, now) == ProgressLoop(w, w.active_jobs, now)

\* ------------------------------------------------------------------------
\* Dispatcher._cancel_stuck_jobs
\* ------------------------------------------------------------------------
JobIn(jobs, id) == \E k \in 1..Len(jobs) : jobs[k].job_id = id
JobOf(w, id) ==
  IF JobIn(w.active_jobs, id)
    THEN w.active_jobs[CHOOSE k \in 1..Len(w.active_jobs) : w.active_jobs[k].job_id = id]
    ELSE w.pending_jobs[CHOOSE k \in 1..Len(w.pending_jobs) : w.pending_jobs[k].job_id = id]

\* Case 2 with the buffer tile found and the outcome r of
\* agv.start_dropoff(buffer, ...): job and AGV go to the buffer tile
Retargeted(w, i, buffer, r) ==
  LET id == w.agvs[i].current_job
      retarget(j) == IF j.job_id = id
                       THEN [j EXCEPT !.target_pos = buffer, !.job_type = "move_to_buffer"]
                       ELSE j
  IN IF buffer # NoPos /\ r.ok
       THEN [w EXCEPT
               !.agvs[i] = [r.agv EXCEPT !.blocked_timer = 0, !.is_blocked = FALSE],
               !.active_jobs = [k \in 1..Len(@) |-> retarget(@[k])],
               !.pending_jobs = [k \in 1..Len(@) |-> retarget(@[k])],
               !.log = Append(@, [kind |-> "retarget", job_id |-> id,
                                  agv |-> i, target_pos |-> buffer])]
       ELSE w

\* Case 2: buffer = self._find_buffer_spot(agv.pos, ...)
RetargetTo(w, i, buffer) ==
  Retargeted(w, i, buffer, start_dropoff(w.agvs[i], buffer, {}))

\* body of the for-loop for one AGV
CancelStuck(w, i) ==
  LET a == w.agvs[i] IN
  IF ~a.is_blocked \/ a.blocked_timer < JOB_CANCEL_TIMEOUT \/ a.current_job = 0
    THEN w
  \* Case 1: stuck heading to pickup (not carrying yet): cancel and re-queue
  ELSE IF a.carrying_cart = 0 /\ a.state = "moving_to_pickup"
    THEN [w EXCEPT
            !.agvs[i] = [a EXCEPT !.current_job = 0, !.state = "idle", !.path = <<>>,
                                  !.path_index = 0, !.path_progress = 0,
                                  !.target = NoPos, !.is_blocked = FALSE,
                                  !.blocked_timer = 0],
            !.active_jobs = SelectSeq(@, LAMBDA j : j.job_id # a.current_job),
            !.pending_jobs = Append(@, [JobOf(w, a.current_job) EXCEPT !.assigned_agv = 0]),
            !.log = Append(@, [kind |-> "cancel", job_id |-> a.current_job, agv |-> i])]
  \* Case 2: stuck while carrying a cart: retarget to nearest parking
  ELSE IF a.carrying_cart # 0 /\ a.state = "moving_to_dropoff"
    THEN RetargetTo(w, i, find_buffer_spot(w, a.pos))
  ELSE w

RECURSIVE CancelLoop(_, _)
CancelLoop(w, i) ==
  IF i > Len(w.agvs) THEN w ELSE CancelLoop(CancelStuck(w, i), i + 1)

cancel_stuck_jobs(w) == CancelLoop(w, 1)

\* nearest unaffiliated parking / AGV-spawn tile outside agv_positions,
\* first in tile order on ties; NoPos stands for None
NearestParking(agv_positions, from) ==
  Nearest(SelectSeq(TilesOfStation(tiles, TileOrder, {"parking", "agv_spawn"}, NoStation),
                    LAMBDA p : p \notin agv_positions),
          from)

\* the first other AGV standing on the waiter's next tile; 0 stands for None
Blocker(ag, i) ==
  LET on == {o \in AgvIds(ag) \ {i} : HasNext(ag[i]) /\ ag[o].pos = NextTile(ag[i])}
  IN IF on = {} THEN 0 ELSE CHOOSE o \in on : \A o2 \in on : o <= o2

\* a nudge that leaves the waiter's blocked_timer running
Nudged_KeepsTimer(w, i, blocker, best_tile, nudge) ==
  IF best_tile # NoPos /\ nudge.ok
    THEN [w EXCEPT !.agvs[blocker] = nudge.agv,
                   !.log = Append(@, [kind |-> "nudge", agv |-> blocker,
                                      waiter |-> i, target_pos |-> best_tile,
                                      before |-> w.agvs])]
    ELSE [w EXCEPT !.log = Append(@, [kind |-> "no_nudge", agv |-> blocker,
                                      waiter |-> i, target_pos |-> best_tile,
                                      before |-> w.agvs])]

\* the idle blocker is sent to best_tile if nudge, the outcome of
\* blocker.set_destination(best_tile, ...), found a route
Nudged(w, i, blocker, best_tile, nudge) ==
  IF best_tile # NoPos /\ nudge.ok
    THEN [w EXCEPT !.agvs[blocker] = nudge.agv,
                   !.agvs[i].blocked_timer = 0,
                   !.log = Append(@, [kind |-> "nudge", agv |-> blocker,
                                      waiter |-> i, target_pos |-> best_tile,
                                      before |-> w.agvs])]
    ELSE [w EXCEPT !.log = Append(@, [kind |-> "no_nudge", agv |-> blocker,
                                      waiter |-> i, target_pos |-> best_tile,
                                      before |-> w.agvs])]

\* the idle blocker is asked to move to the nearest free parking tile
NudgeTo(w, i, blocker, best_tile) ==
  Nudged(w, i, blocker, best_tile, set_destination(w.agvs[blocker], best_tile, {}))

\* rr is the outcome of agv.reroute(...); last_reroute is read after
\* reroute() has (on success) reset blocked_timer
RerouteTried(w, i, rr) ==
  [w EXCEPT !.agvs[i] = [rr.agv EXCEPT !.last_reroute = rr.agv.blocked_timer],
            !.log = Append(@, [kind |-> "reroute", agv |-> i, ok |-> rr.ok,
                               before |-> w.agvs[i], after |-> rr.agv,
                               blocked |-> BlockedTiles(w.agvs, i)])]

HandleBlocked(w, i) ==
  LET ag == w.agvs
      a == ag[i]
      blocker == Blocker(ag, i)
  IN IF ~a.is_blocked \/ a.blocked_timer < BLOCK_TIMEOUT THEN w
     ELSE IF blocker # 0 /\ ag[blocker].state = "idle" /\ ag[blocker].current_job = 0
             /\ ag[blocker].carrying_cart = 0
       THEN NudgeTo(w, i, blocker,
                    NearestParking({ag[o].pos : o \in AgvIds(ag)}, ag[blocker].pos))
     \* blocker is actively moving (not itself stuck): wait briefly
     ELSE IF blocker # 0 /\ ~ag[blocker].is_blocked /\ ag[blocker].state # "idle"
             /\ a.blocked_timer < BLOCK_TIMEOUT * 2
       THEN w
     ELSE IF a.blocked_timer - a.last_reroute < REROUTE_COOLDOWN
       THEN [w EXCEPT !.log = Append(@, [kind |-> "cooldown", agv |-> i,
                                         blocked_timer |-> a.blocked_timer,
                                         last_reroute |-> a.last_reroute])]
     ELSE RerouteTried(w, i, reroute(ag, i))

RECURSIVE HandleBlockedLoop(_, _)
HandleBlockedLoop(w, i) ==
  IF i > Len(w.agvs) THEN w ELSE HandleBlockedLoop(HandleBlocked(w, i), i + 1)

handle_blocked_agvs(w) == HandleBlockedLoop(w, 1)

\* the idle AGV is sent to best if r, the outcome of
\* agv.set_destination(best, ...), found a route
Parked(w, i, best, r) ==
  IF best # NoPos /\ r.ok
    THEN [w EXCEPT !.agvs[i] = r.agv,
                   !.log = Append(@, [kind |-> "park", agv |-> i, target_pos |-> best])]
    ELSE w

ParkAt(w, i, best) == Parked(w, i, best, set_destination(w.agvs[i], best, {}))

\* a parking step that also moves idle AGVs standing off the highway
ParkIdle_OffHighway(w, i, agv_positions) ==
  LET a == w.agvs[i] IN
  IF a.state # "idle" \/ a.current_job # 0 \/ a.carrying_cart # 0 THEN w
  ELSE ParkAt(w, i, NearestParking(agv_positions, a.pos))

ParkIdle(w, i, agv_positions) ==
  LET a == w.agvs[i] IN
  IF a.state # "idle" \/ a.current_job # 0 \/ a.carrying_cart # 0 THEN w
  ELSE IF a.pos \notin DOMAIN tiles \/ tiles[a.pos].tile_type # "highway" THEN w
  ELSE ParkAt(w, i, NearestParking(agv_positions, a.pos))

RECURSIVE ParkLoop(_, _, _)
ParkLoop(w, i, agv_positions) ==
  IF i > Len(w.agvs) THEN w
  ELSE ParkLoop(ParkIdle(w, i, agv_positions), i + 1, agv_positions)

park_idle_agvs(w) == ParkLoop(w, 1, {w.agvs[o].pos : o \in AgvIds(w.agvs)})

\* ------------------------------------------------------------------------
\* Dispatcher.update
\* ------------------------------------------------------------------------
Dispatcher_update(w, picks, now) ==
  park_idle_agvs(
    handle_blocked_agvs(
      progress_jobs(
        assign_jobs(
          create_jobs(cancel_stuck_jobs(w), picks, now)),
        now)))

\* ------------------------------------------------------------------------
\* run_headless (headless.py): pre-placement and the tick loop
\* ------------------------------------------------------------------------
\* tiles entities can be pre-placed on
placeable ==
  {p \in DOMAIN graph : tiles[p].tile_type \in {"parking", "pick_station"}}

\* the runs explored: pre-placement (AGV tiles then cart tiles, all distinct
\* placeable tiles) and sim_duration
Placements ==
  { [agvs |-> << <<3, 2>> >>, carts |-> << <<0, 0>> >>, duration |-> MaxTime],
    [agvs |-> << <<1, 0>>, <<2, 0>> >>, carts |-> << <<3, 2>> >>, duration |-> MaxTime],
    [agvs |-> << <<3, 0>>, <<3, 2>>, <<2, 2>> >>,
     carts |-> << <<0, 0>>, <<4, 0>>, <<1, 0>> >>, duration |-> ShortTime],
    [agvs |-> << <<3, 0>>, <<0, 0>> >>,
     carts |-> << <<2, 2>>, <<2, 0>> >>, duration |-> ShortTime],
    [agvs |-> << <<0, 0>> >>,
     carts |-> << <<1, 2>>, <<2, 2>>, <<4, 4>> >>, duration |-> ShortTime],
    [agvs |-> << <<4, 0>> >>,
     carts |-> << <<1, 0>>, <<2, 0>>, <<0, 0>> >>, duration |-> ShortTime] }

\* the fixed timesteps explored (tick_dt): 1.0 s and 2.5 s
TickDts == {100, 250}

World ==
  [agvs |-> agvs, carts |-> carts, pending_jobs |-> pending_jobs,
   active_jobs |-> active_jobs, completed_orders |-> completed_orders,
   cart_start_times |-> cart_start_times, cycle_times |-> cycle_times,
   next_job_id |-> next_job_id, log |-> <<>>]

InitWith(pl, dt, duration) ==
  /\ agvs = [k \in 1..Len(pl.agvs) |-> NewAGV(pl.agvs[k])]
  /\ carts = [k \in 1..Len(pl.carts) |-> NewCart(pl.carts[k])]
  /\ pending_jobs = <<>>
  /\ active_jobs = <<>>
  /\ completed_orders = 0
  /\ cart_start_times = [k \in 1..Len(pl.carts) |-> -1]
  /\ cycle_times = <<>>
  /\ next_job_id = 1
  /\ sim_elapsed = 0
  /\ tick_dt = dt
  /\ horizon = duration
  /\ pc = 1
  /\ log = <<>>

Init == \E pl \in Placements, dt \in TickDts : InitWith(pl, dt, pl.duration)

\* the agvs and carts lists after one agv.update
Moved(r) ==
  /\ agvs' = r.agvs
  /\ carts' = r.carts

\* for agv in agvs: agv.update(tick_dt, agvs, carts, graph, tiles)
AgvStep ==
  /\ pc \in 1..Len(agvs)
  /\ pc = 1 => sim_elapsed < horizon
  /\ Moved(AGV_update(agvs, carts, pc, tick_dt))
  /\ pc' = pc + 1
  /\ log' = <<>>
  /\ UNCHANGED <<pending_jobs, active_jobs, completed_orders, cart_start_times,
                 cycle_times, next_job_id, sim_elapsed, tick_dt, horizon>>

\* for cart in carts: cart.update(tick_dt)
CartStep ==
  /\ pc = Len(agvs) + 1
  /\ carts' = [c \in 1..Len(carts) |-> Cart_update(carts[c], tick_dt)]
  /\ pc' = pc + 1
  /\ log' = <<>>
  /\ UNCHANGED <<agvs, pending_jobs, active_jobs, completed_orders, cart_start_times,
                 cycle_times, next_job_id, sim_elapsed, tick_dt, horizon>>

\* the dispatcher's jobs and counters, and the agvs and carts it was handed,
\* after an update
Updated(w) ==
  /\ agvs' = w.agvs
  /\ carts' = w.carts
  /\ pending_jobs' = w.pending_jobs
  /\ active_jobs' = w.active_jobs
  /\ completed_orders' = w.completed_orders
  /\ cart_start_times' = w.cart_start_times
  /\ cycle_times' = w.cycle_times
  /\ next_job_id' = w.next_job_id
  /\ log' = w.log

\* dispatcher.update(...); sim_elapsed += tick_dt
DispatchStep ==
  /\ pc = Len(agvs) + 2
  /\ \E picks \in [{c \in CartIds(carts) : NeedsOrder(World, c)} -> PickLists] :
       Updated(Dispatcher_update(World, picks, sim_elapsed))
  /\ sim_elapsed' = sim_elapsed + tick_dt
  /\ pc' = 1
  /\ UNCHANGED <<tick_dt, horizon>>

Next == AgvStep \/ CartStep \/ DispatchStep

Spec == Init /\ [][Next]_vars

\* ------------------------------------------------------------------------
\* Runs that start near the dispatch limit.  The limit of 12 concurrent jobs
\* is out of reach of the short runs above, so these runs start in the middle
\* of a busy shift: n AGVs have just arrived with their carts and begin the
\* drop-off (the first one is about to finish), two spawned carts wait with
\* pending pickup jobs, and a few idle AGVs stand by.
\* ------------------------------------------------------------------------
\* drop-off tiles of the busy AGVs, one per concurrent job
BusyTiles ==
  << <<1, 0>>, <<4, 0>>, <<5, 0>>, <<1, 2>>, <<2, 2>>, <<4, 2>>, <<5, 2>>,
     <<0, 0>>, <<6, 0>>, <<3, 2>>, <<5, 4>>, <<4, 4>> >>

\* the job that brings a cart to tile p
BusyJobType(p) ==
  IF tiles[p].tile_type = "pick_station" THEN "move_to_pick"
  ELSE IF tiles[p].station_id = "Box_Depot" THEN "pickup_to_box_depot"
  ELSE IF tiles[p].station_id = "Pack_off" THEN "move_to_packoff"
  ELSE "move_to_buffer"

\* the order of a cart on such a job: none on the way to the depot, the
\* station still open on the way to a pick, all picked on the way to pack-off,
\* the second station still open on the way to a buffer tile
BusyOrder(p) ==
  LET jt == BusyJobType(p)
      n == IF tiles[p].tile_type = "pick_station"
             THEN StationNum(tiles[p].station_id) ELSE 1
  IN IF jt = "pickup_to_box_depot" THEN NoOrder
     ELSE IF jt = "move_to_pick" THEN NewOrder(<<n>>)
     ELSE IF jt = "move_to_packoff" THEN complete_station(NewOrder(<<1>>), 1)
     ELSE complete_station(NewOrder(<<1, 2>>), 1)

\* where the cart was picked up (its pos stays there unless it is in_transit)
BusyCartPos(p) ==
  LET jt == BusyJobType(p)
  IN IF jt = "pickup_to_box_depot" THEN <<2, 4>>
     ELSE IF jt = "move_to_pick" THEN <<2, 0>>
     ELSE IF jt = "move_to_packoff" THEN <<1, 2>>
     ELSE p

\* number of busy AGVs and the tiles of the idle AGVs, in list order
AssignSetups ==
  { [n |-> 12, free |-> << <<3, 4>> >>],
    [n |-> 11, free |-> << <<4, 4>>, <<3, 4>> >>],
    [n |-> 11, free |-> << <<3, 4>>, <<4, 4>> >>],
    [n |-> 10, free |-> << <<5, 4>>, <<4, 4>>, <<3, 4>> >>] }

\* the two spawned carts that wait for an AGV, and the depot tiles reserved
\* for them
WaitingCarts == << <<2, 4>>, <<1, 4>> >>
WaitingTargets == << <<2, 0>>, <<3, 0>> >>

InitAssign ==
  \E su \in AssignSetups :
    LET n == su.n IN
    /\ agvs = [i \in 1..(n + Len(su.free)) |->
                 IF i <= n
                   THEN [NewAGV(BusyTiles[i]) EXCEPT
                           !.state = "dropping_off",
                           !.action_timer = IF i = 1 THEN 200 ELSE DROPOFF_TIME,
                           !.carrying_cart = i, !.current_job = i]
                   ELSE NewAGV(su.free[i - n])]
    /\ carts = [c \in 1..(n + 2) |->
                  IF c <= n
                    THEN [NewCart(BusyCartPos(BusyTiles[c])) EXCEPT
                            !.state = set_transit_state(BusyJobType(BusyTiles[c])),
                            !.carried_by = c,
                            !.order = BusyOrder(BusyTiles[c])]
                    ELSE NewCart(WaitingCarts[c - n])]
    /\ active_jobs = [k \in 1..n |->
                        [NewJob(k, BusyJobType(BusyTiles[k]), k, BusyTiles[k],
                                IF tiles[BusyTiles[k]].tile_type = "pick_station"
                                  THEN tiles[BusyTiles[k]].station_id ELSE NoStation)
                           EXCEPT !.assigned_agv = k]]
    /\ pending_jobs = [k \in 1..2 |->
                         NewJob(n + k, "pickup_to_box_depot", n + k,
                                WaitingTargets[k], NoStation)]
    /\ completed_orders = 0
    /\ cart_start_times = [c \in 1..(n + 2) |-> 0]
    /\ cycle_times = <<>>
    /\ next_job_id = n + 3
    /\ sim_elapsed = MaxTime
    /\ tick_dt = 100
    /\ horizon = MaxTime + AssignTime
    /\ pc = 1
    /\ log = <<>>

SpecAssign == InitAssign /\ [][Next]_vars

\* ------------------------------------------------------------------------
\* Properties
\* ------------------------------------------------------------------------
LiveJobs == pending_jobs \o active_jobs

LogOf(kind) == {k \in 1..Len(log) : log[k].kind = kind}

\* the tick loop has run the dispatcher and stands at a tick boundary
TickBoundary == pc = 1 /\ sim_elapsed > 0

\* C1: after every AGV.update and every Dispatcher.update (every position
\* inside a tick) no two distinct AGVs stand on the same tile
C1_DistinctAgvPositions ==
  \A i, j \in AgvIds(agvs) : i # j => agvs[i].pos # agvs[j].pos

\* an AGV was refused its next tile because another AGV stands on it
C1_Witness ==
  \E i \in AgvIds(agvs) :
    /\ agvs[i].is_blocked
    /\ agvs[i].path_progress = 99
    /\ Blocker(agvs, i) # 0

\* C2: at the end of every tick each cart is either stationary on a walkable
\* tile or carried with cart.pos equal to the position of its carrier
C2_CartAtCarrier ==
  pc = 1 =>
    \A c \in CartIds(carts) :
      \/ carts[c].carried_by = 0 /\ carts[c].pos \in all_positions
      \/ carts[c].carried_by # 0 /\ carts[c].pos = agvs[carts[c].carried_by].pos

\* C3: every cart has at most one job in pending_jobs and active_jobs together
C3_OneLiveJobPerCart ==
  \A c \in CartIds(carts) :
    Cardinality({k \in 1..Len(LiveJobs) : LiveJobs[k].cart = c}) <= 1

\* a cart that would qualify for a new pickup job (spawned, stationary, a
\* depot tile free) already has an active job and a dispatcher update has run
C3_Witness ==
  /\ TickBoundary
  /\ \E c \in CartIds(carts) :
       /\ carts[c].state = "spawned"
       /\ carts[c].carried_by = 0
       /\ \E k \in 1..Len(active_jobs) : active_jobs[k].cart = c
       /\ find_tile(World, "Box_Depot", "parking") # NoPos

\* C4: every AGV is the assigned_agv of at most one active job and carries
\* that job as its current_job, and every assignment went to an AGV that was
\* idle with no current_job and no carrying_cart at that moment
C4_OneJobPerAgv ==
  /\ \A i \in AgvIds(agvs) :
       Cardinality({k \in 1..Len(active_jobs) : active_jobs[k].assigned_agv = i}) <= 1
  /\ \A k \in 1..Len(active_jobs) :
       /\ active_jobs[k].assigned_agv \in AgvIds(agvs)
       /\ agvs[active_jobs[k].assigned_agv].current_job = active_jobs[k].job_id
  /\ \A k \in LogOf("assign") :
       LET a == log[k].agvs_before[log[k].agv]
       IN a.state = "idle" /\ a.current_job = 0 /\ a.carrying_cart = 0

\* a job was assigned while another AGV, idle for the moment, still had its
\* job and its cart
C4_Witness ==
  \E k \in LogOf("assign") :
    \E j \in AgvIds(agvs) \ {log[k].agv} :
      /\ log[k].agvs_before[j].state = "idle"
      /\ log[k].agvs_before[j].current_job # 0

\* C5: no two jobs of pending_jobs and active_jobs have the same target_pos
C5_DistinctTargets ==
  \A k1, k2 \in 1..Len(LiveJobs) :
    k1 # k2 => LiveJobs[k1].target_pos # LiveJobs[k2].target_pos

\* a stuck job was retargeted to a buffer tile while other jobs are live
C5_Witness ==
  /\ LogOf("retarget") # {}
  /\ Len(LiveJobs) >= 2

\* the tiles designated to a station: pick-station tiles of S<n>, parking
\* tiles of Box_Depot and Pack_off
DesignatedTiles ==
  [sid \in Range(StationIds) |->
     {p \in TilePositions :
        /\ tiles[p].station_id = sid
        /\ tiles[p].tile_type =
             (IF sid \in {"S1", "S2"} THEN "pick_station" ELSE "parking")}]

\* tiles of stationary carts and targets of pending and active jobs
HeldTiles ==
  {carts[c].pos : c \in {d \in CartIds(carts) : carts[d].carried_by = 0}}
    \cup {LiveJobs[k].target_pos : k \in 1..Len(LiveJobs)}

\* the fill of a dispatcher without carts and without jobs
EmptyFill ==
  get_station_fill([carts |-> <<>>, pending_jobs |-> <<>>, active_jobs |-> <<>>])

\* C6: for every station, current is the number of its designated tiles that
\* hold a stationary cart or are the target of a pending or active job,
\* current <= capacity, capacity is the table value, and a world without carts
\* and jobs has current = 0
C6_StationFill ==
  /\ \A fill \in {get_station_fill(World)}, held \in {HeldTiles} :
       \A sid \in Range(StationIds) :
         /\ fill[sid].current = Cardinality(DesignatedTiles[sid] \cap held)
         /\ fill[sid].current <= fill[sid].capacity
         /\ fill[sid].capacity = STATIONS[sid]
  /\ \A sid \in Range(StationIds) :
       EmptyFill[sid] = [current |-> 0, capacity |-> STATIONS[sid]]

\* a station is full and one of its tiles is held by a job target alone
C6_Witness ==
  \E sid \in Range(StationIds) :
    /\ get_station_fill(World)[sid].current = STATIONS[sid]
    /\ \E k \in 1..Len(LiveJobs) :
         /\ tiles[LiveJobs[k].target_pos].station_id = sid
         /\ \A c \in CartIds(carts) :
              carts[c].carried_by # 0 \/ carts[c].pos # LiveJobs[k].target_pos

\* C9: completed_stations of every order holds only stations of
\* stations_to_visit and none twice; a move_to_pick job is created only for a
\* station of the order not yet completed, and its completion appends exactly
\* that station
C9_CompletedStations ==
  /\ \A c \in CartIds(carts) :
       LET o == carts[c].order
       IN /\ Range(o.completed_stations) \subseteq Range(o.stations_to_visit)
          /\ Cardinality(Range(o.completed_stations)) = Len(o.completed_stations)
  /\ \A k \in LogOf("create") :
       log[k].job_type = "move_to_pick" =>
         /\ log[k].order.present
         /\ StationNum(log[k].station_id) \in Range(log[k].order.stations_to_visit)
         /\ StationNum(log[k].station_id) \notin Range(log[k].order.completed_stations)
  /\ \A k \in LogOf("complete") :
       log[k].job.job_type = "move_to_pick" =>
         LET n == StationNum(log[k].job.station_id)
             before == log[k].cart_before.order
         IN /\ before.present
            /\ n \notin Range(before.completed_stations)
            /\ log[k].order_after.completed_stations
                 = Append(before.completed_stations, n)

\* the second station of a two-station order was completed
C9_Witness ==
  \E k \in LogOf("complete") :
    /\ log[k].job.job_type = "move_to_pick"
    /\ Len(log[k].order_after.completed_stations) = 2

\* C10: when _complete_job runs, the cart has been dropped (state idle,
\* carried_by none) on job.target_pos by the job's AGV, which is idle there
\* without a cart; a job whose AGV is still on its way to the pickup or
\* picking up stays in active_jobs
C10_CompleteAfterDropoff ==
  /\ [](\A k \in LogOf("complete") :
          LET e == log[k]
          IN /\ e.job.assigned_agv # 0
             /\ e.cart_before.carried_by = 0
             /\ e.cart_before.state = "idle"
             /\ e.cart_before.pos = e.job.target_pos
             /\ e.agv_before.state = "idle"
             /\ e.agv_before.carrying_cart = 0
             /\ e.agv_before.current_job = e.job.job_id
             /\ e.agv_before.pos = e.job.target_pos)
  /\ [][\A k \in 1..Len(active_jobs) :
          agvs[active_jobs[k].assigned_agv].state \in {"moving_to_pickup", "picking_up"}
            => JobIn(active_jobs', active_jobs[k].job_id)]_vars

\* a job retargeted to a buffer tile on its way to the depot was completed
C10_Witness ==
  \E k \in LogOf("complete") :
    /\ log[k].job.job_type = "move_to_buffer"
    /\ ~log[k].cart_before.order.present

\* C7: active_jobs never holds more than max_concurrent_dispatches jobs, and
\* a dispatcher update adds at most (max - len(active_jobs)) jobs to it, so
\* none when it starts at the limit
C7_DispatchLimit ==
  /\ [](Len(active_jobs) <= MAX_CONCURRENT_DISPATCHES)
  /\ [][Cardinality({k \in 1..Len(active_jobs') :
                       ~JobIn(active_jobs, active_jobs'[k].job_id)})
          <= MAX_CONCURRENT_DISPATCHES - Len(active_jobs)]_vars

\* an update that started one below the limit assigned one job and left a
\* pending job and a free AGV behind
C7_Witness ==
  /\ Cardinality(LogOf("assign")) = 1
  /\ \A k \in LogOf("assign") : log[k].active_before = MAX_CONCURRENT_DISPATCHES - 1
  /\ Len(active_jobs) = MAX_CONCURRENT_DISPATCHES
  /\ pending_jobs # <<>>
  /\ \E i \in AgvIds(agvs) :
       agvs[i].state = "idle" /\ agvs[i].current_job = 0 /\ agvs[i].carrying_cart = 0

\* C8: every assignment goes to an AGV with the least Manhattan distance to
\* the job's cart among all AGVs free at that moment
C8_NearestFreeAgv ==
  \A k \in LogOf("assign") :
    LET e == log[k]
    IN \A j \in DOMAIN e.agvs_before :
         (/\ e.agvs_before[j].state = "idle"
          /\ e.agvs_before[j].current_job = 0
          /\ e.agvs_before[j].carrying_cart = 0)
           => Manhattan(e.agvs_before[e.agv].pos, e.cart_pos)
                <= Manhattan(e.agvs_before[j].pos, e.cart_pos)

\* C11: every completion sets the cart by the job type alone
\* (pickup_to_box_depot: at_box_depot, box_depot_time; move_to_pick of
\* station n: picking, pick_time_per_item * items_at_station(n), n marked
\* completed; move_to_packoff: at_packoff, packoff_time; move_to_buffer:
\* waiting_for_station; return_to_box_depot: at_box_depot, box_depot_time,
\* order cleared), clears the AGV's current_job and removes the job from
\* active_jobs; completed_orders grows by exactly one per completed
\* return_to_box_depot job
C11_CompletionByJobType ==
  /\ [](\A k \in LogOf("complete") :
          LET job == log[k].job
              before == log[k].cart_before
              cart == carts[job.cart]
              n == StationNum(job.station_id)
              items == Cardinality({j \in 1..Len(before.order.picks) :
                                      before.order.picks[j] = n})
          IN /\ job.job_type = "pickup_to_box_depot" =>
                  /\ cart.state = "at_box_depot"
                  /\ cart.process_timer = BOX_DEPOT_TIME
                  /\ cart.order = before.order
             /\ job.job_type = "move_to_pick" =>
                  /\ cart.state = "picking"
                  /\ cart.process_timer = PICK_TIME_PER_ITEM * items
                  /\ cart.order.completed_stations
                       = Append(before.order.completed_stations, n)
             /\ job.job_type = "move_to_packoff" =>
                  /\ cart.state = "at_packoff"
                  /\ cart.process_timer = PACKOFF_TIME
                  /\ cart.order = before.order
             /\ job.job_type = "move_to_buffer" =>
                  /\ cart.state = "waiting_for_station"
                  /\ cart.process_timer = before.process_timer
                  /\ cart.order = before.order
             /\ job.job_type = "return_to_box_depot" =>
                  /\ cart.state = "at_box_depot"
                  /\ cart.process_timer = BOX_DEPOT_TIME
                  /\ cart.order = NoOrder
             /\ cart.pos = before.pos
             /\ cart.carried_by = 0
             /\ agvs[job.assigned_agv].current_job = 0
             /\ ~JobIn(active_jobs, job.job_id)
             /\ ~JobIn(pending_jobs, job.job_id))
  /\ [][completed_orders' = completed_orders +
          Cardinality({k \in 1..Len(log') :
                         /\ log'[k].kind = "complete"
                         /\ log'[k].job.job_type = "return_to_box_depot"})]_vars

\* a return_to_box_depot job was completed for a cart that had an order
C11_Witness ==
  \E k \in LogOf("complete") :
    /\ log[k].job.job_type = "return_to_box_depot"
    /\ log[k].cart_before.order.present
    /\ completed_orders = 1

\* C12: every completed return_to_box_depot job has recorded one cycle-time
\* sample, so cycle_times holds as many samples as there are completed orders
C12_CycleTimePerOrder ==
  Len(cycle_times) = completed_orders

\* an AGV on its way to a pickup has been blocked for job_cancel_timeout
StuckToPickup(a) ==
  /\ a.current_job # 0
  /\ a.state = "moving_to_pickup"
  /\ a.is_blocked
  /\ a.blocked_timer >= JOB_CANCEL_TIMEOUT

\* an AGV carrying its job's cart to the dropoff has been blocked for
\* job_cancel_timeout
StuckCarrying(a) ==
  /\ a.current_job # 0
  /\ a.carrying_cart # 0
  /\ a.state = "moving_to_dropoff"
  /\ a.is_blocked
  /\ a.blocked_timer >= JOB_CANCEL_TIMEOUT

\* unaffiliated parking tiles
BufferTiles ==
  {p \in TilePositions : tiles[p].tile_type = "parking" /\ tiles[p].station_id = NoStation}

\* C14: in a dispatcher update, a stuck carrying AGV for which an unaffiliated
\* parking tile outside the reservation set exists (every tile of the layout
\* being reachable) ends with its job of type move_to_buffer, the job's
\* target a nearest such tile (Manhattan from the AGV), its path ending on
\* that tile and blocked_timer 0; with no such tile the job and the AGV's
\* destination are unchanged.  The reservation set at the AGV's turn is the
\* tiles of stationary carts and the targets of all jobs, those of jobs
\* retargeted earlier in the same step taken after their retargeting
C14_RetargetToNearestBuffer ==
  [][pc = Len(agvs) + 2 =>
       \A i \in AgvIds(agvs) :
         StuckCarrying(agvs[i]) =>
           LET id == agvs[i].current_job
               earlier == {k \in 1..Len(log') :
                             log'[k].kind = "retarget" /\ log'[k].agv < i}
               target_at_turn(j) ==
                 IF \E k \in earlier : log'[k].job_id = j.job_id
                   THEN log'[CHOOSE k \in earlier : log'[k].job_id = j.job_id].target_pos
                   ELSE j.target_pos
               reserved == {carts[c].pos : c \in {d \in CartIds(carts) : carts[d].carried_by = 0}}
                             \cup {target_at_turn(LiveJobs[k]) : k \in 1..Len(LiveJobs)}
               free == BufferTiles \ reserved
               before == JobOf(World, id)
               after == active_jobs'[CHOOSE k \in 1..Len(active_jobs') :
                                       active_jobs'[k].job_id = id]
           IN /\ JobIn(active_jobs', id)
              /\ free # {} =>
                   /\ after.job_type = "move_to_buffer"
                   /\ after.target_pos \in free
                   /\ \A p \in free : Manhattan(after.target_pos, agvs[i].pos)
                                        <= Manhattan(p, agvs[i].pos)
                   /\ after.cart = before.cart
                   /\ after.assigned_agv = i
                   /\ agvs'[i].path # <<>>
                   /\ Last(agvs'[i].path) = after.target_pos
                   /\ agvs'[i].target = after.target_pos
                   /\ agvs'[i].state = "moving_to_dropoff"
                   /\ agvs'[i].blocked_timer = 0
                   /\ ~agvs'[i].is_blocked
                   /\ agvs'[i].current_job = id
              /\ free = {} =>
                   /\ after = before
                   /\ agvs'[i].state = agvs[i].state
                   /\ agvs'[i].target = agvs[i].target
                   /\ agvs'[i].current_job = id]_vars

\* a stuck job was retargeted to a buffer tile that is not the first free
\* one in tile order, away from the AGV's own tile
C14_Witness ==
  \E k \in LogOf("retarget") :
    /\ agvs[log[k].agv].pos # log[k].target_pos
    /\ \E p \in BufferTiles \ HeldTiles :
         \E a, b \in 1..Len(TileOrder) :
           TileOrder[a] = p /\ TileOrder[b] = log[k].target_pos /\ a < b

\* a stationary cart in waiting_for_station without a pending or active job
WaitingWithoutJob(c) ==
  /\ carts[c].state = "waiting_for_station"
  /\ carts[c].carried_by = 0
  /\ \A k \in 1..Len(LiveJobs) : LiveJobs[k].cart # c

\* where a waiting cart has to go next: a remaining station of its order,
\* Pack_off when every station is picked, the Box_Depot when it was on its
\* way there without an order
Destinations(c) ==
  LET o == carts[c].order
      remaining == {n \in Range(o.stations_to_visit) :
                      n \notin Range(o.completed_stations)}
  IN IF ~o.present THEN {"Box_Depot"}
     ELSE IF remaining = {} THEN {"Pack_off"}
     ELSE {Sid(n) : n \in remaining}

\* C15: at every dispatcher update, a stationary cart in waiting_for_station
\* without a job gets a job to its destination (move_to_pick to a remaining
\* station, move_to_packoff when all are picked) unless no tile of a
\* destination stays free over the update, whichever way the cart came to
\* wait
C15_WaitingCartGetsJob ==
  [][pc = Len(agvs) + 2 =>
       \A c \in CartIds(carts) :
         WaitingWithoutJob(c) =>
           \/ \E k \in 1..Len(LiveJobs') :
                /\ LiveJobs'[k].cart = c
                /\ LiveJobs'[k].target_pos
                     \in UNION {DesignatedTiles[sid] : sid \in Destinations(c)}
           \/ \A sid \in Destinations(c) :
                DesignatedTiles[sid] \subseteq HeldTiles \cup HeldTiles']_vars

\* ------------------------------------------------------------------------
\* Runs of one AGV and one cart (the single-order scenario of run_headless):
\* the tick loop keeps running until sim_duration, so a step that can be
\* taken is eventually taken.
\* ------------------------------------------------------------------------
InitSingle ==
  \E a \in {<<3, 2>>, <<6, 0>>, <<1, 4>>},
     c \in {<<0, 0>>, <<2, 2>>, <<5, 4>>, <<1, 0>>}, dt \in TickDts :
    InitWith([agvs |-> <<a>>, carts |-> <<c>>], dt, MaxTime)

\* the loop of run_headless moves on to its next step (an AGV update, the
\* cart updates, the dispatcher update) while sim_elapsed < sim_duration;
\* every step of Next is such a step
LoopStep ==
  /\ pc = 1 => sim_elapsed < horizon
  /\ pc' = IF pc = Len(agvs) + 2 THEN 1 ELSE pc + 1

SpecSingle == InitSingle /\ [][Next]_vars /\ WF_pc(LoopStep)

\* C16: with one AGV and one spawned cart, repeated ticks eventually bring
\* completed_orders to 1.  On the way the cart changes state only along
\* spawned, to_box_depot, at_box_depot, in_transit_to_pick, picking,
\* in_transit_to_packoff, at_packoff, to_box_depot, at_box_depot (in_transit
\* between a pickup and the next dispatcher update, idle between a dropoff
\* and the next dispatcher update); every job is created for the leg that
\* follows the state its cart is in, with the process timer run out and,
\* from the depot on, an order on the cart; a transit state is entered under
\* a job of its type, and left for the state that job type ends in; each
\* pick is at a station of the order not yet completed; the cart goes to
\* pack-off only with every station of the order completed exactly once; and
\* completed_orders rises exactly when the cart with its order arrives back
\* at the depot.
C16_SingleOrderCompletes ==
  /\ <>(completed_orders >= 1)
  /\ [][LET
         \* the changes of state a cart goes through on its way round the loop; a
         \* cart is in_transit from its pickup until the dispatcher sets the transit
         \* state of its job, and idle from its dropoff until the dispatcher
         \* completes the job
         CartFlow ==
           { <<"spawned", "in_transit">>, <<"at_box_depot", "in_transit">>,
             <<"picking", "in_transit">>, <<"at_packoff", "in_transit">>,
             <<"in_transit", "to_box_depot">>, <<"in_transit", "in_transit_to_pick">>,
             <<"in_transit", "in_transit_to_packoff">>,
             <<"to_box_depot", "idle">>, <<"in_transit_to_pick", "idle">>,
             <<"in_transit_to_packoff", "idle">>,
             <<"idle", "at_box_depot">>, <<"idle", "picking">>, <<"idle", "at_packoff">> }

         \* the job type that takes a cart on from the state a job was created in
         LegFrom(cart_state, order) ==
           CASE cart_state = "spawned" -> "pickup_to_box_depot"
             [] cart_state = "at_box_depot" -> "move_to_pick"
             [] cart_state = "picking" ->
                  IF Remaining(order) # <<>> THEN "move_to_pick" ELSE "move_to_packoff"
             [] cart_state = "at_packoff" -> "return_to_box_depot"
             [] OTHER -> "none"

         \* the state a cart is left in where a job of the type ends
         LandingOf(job_type) ==
           CASE job_type \in {"pickup_to_box_depot", "return_to_box_depot"} -> "at_box_depot"
             [] job_type = "move_to_pick" -> "picking"
             [] job_type = "move_to_packoff" -> "at_packoff"
             [] OTHER -> "waiting_for_station"
       IN
          /\ \A k \in {e \in 1..Len(log') : log'[e].kind = "create"} :
               /\ log'[k].job_type = LegFrom(log'[k].cart_state, log'[k].order)
               /\ log'[k].process_timer = 0
               /\ log'[k].cart_state # "spawned" => log'[k].order.present
          /\ \A c \in CartIds(carts) :
               /\ carts'[c].state # carts[c].state =>
                    <<carts[c].state, carts'[c].state>> \in CartFlow
               /\ (carts[c].state = "in_transit" /\ carts'[c].state # "in_transit") =>
                    \E k \in 1..Len(active_jobs') :
                      /\ active_jobs'[k].cart = c
                      /\ set_transit_state(active_jobs'[k].job_type) = carts'[c].state
               /\ (carts[c].state # "idle" /\ carts'[c].state = "idle") =>
                    \E k \in 1..Len(active_jobs') :
                      /\ active_jobs'[k].cart = c
                      /\ set_transit_state(active_jobs'[k].job_type) = carts[c].state
                      /\ carts'[c].pos = active_jobs'[k].target_pos
               /\ (carts[c].state = "idle" /\ carts'[c].state # "idle") =>
                    \E k \in 1..Len(active_jobs) :
                      /\ active_jobs[k].cart = c
                      /\ LandingOf(active_jobs[k].job_type) = carts'[c].state
                      /\ ~JobIn(active_jobs', active_jobs[k].job_id)
               /\ (carts[c].state # "picking" /\ carts'[c].state = "picking") =>
                    /\ carts[c].order.present
                    /\ \E n \in Range(carts[c].order.stations_to_visit)
                              \ Range(carts[c].order.completed_stations) :
                         /\ carts'[c].order.completed_stations
                              = Append(carts[c].order.completed_stations, n)
                         /\ tiles[carts'[c].pos].station_id = Sid(n)
               /\ carts'[c].state = "in_transit_to_packoff" =>
                    /\ Range(carts'[c].order.completed_stations)
                         = Range(carts'[c].order.stations_to_visit)
                    /\ Len(carts'[c].order.completed_stations)
                         = Len(carts'[c].order.stations_to_visit)
          /\ completed_orders' = completed_orders +
               Cardinality({c \in CartIds(carts) :
                              /\ carts[c].state # "at_box_depot"
                              /\ carts'[c].state = "at_box_depot"
                              /\ carts[c].order.present})]_vars

\* the single cart is back at the depot with its order completed
C16_Witness ==
  /\ Len(agvs) = 1 /\ Len(carts) = 1
  /\ completed_orders = 1
  /\ carts[1].state = "at_box_depot"
  /\ ~carts[1].order.present
  /\ Len(cycle_times) = 1

\* ------------------------------------------------------------------------
\* A run in which an AGV on its way to a pickup waits behind a carrying AGV
\* that is itself blocked by a stationary cart: two AGVs on the bottom
\* parking row, carts on S1, on the corner parking tile and on the first
\* depot tile.  A second run, of three AGVs and four carts, in which an AGV
\* is blocked, re-routed without success, freed, and blocked again.
\* ------------------------------------------------------------------------
InitStuck ==
  \E dt \in TickDts,
     pl \in { [agvs |-> << <<1, 4>>, <<4, 4>> >>,
               carts |-> << <<1, 2>>, <<0, 0>>, <<1, 0>> >>],
              [agvs |-> << <<4, 0>>, <<1, 4>>, <<5, 2>> >>,
               carts |-> << <<0, 0>>, <<2, 2>>, <<3, 2>>, <<1, 0>> >>] } :
    InitWith(pl, dt, ShortTime)

SpecStuck == InitStuck /\ [][Next]_vars

\* C13: in a dispatcher update, the cancel step detaches the job of every AGV
\* that holds a job, is moving_to_pickup, is blocked and has blocked_timer >=
\* job_cancel_timeout: the job leaves active_jobs and is appended to
\* pending_jobs with no assigned AGV, and the AGV is left idle with no job, an
\* empty path and its block state cleared (the cancel event of the step)
C13_StuckPickupDetached ==
  [][pc = Len(agvs) + 2 =>
       \A i \in AgvIds(agvs) :
         StuckToPickup(agvs[i]) =>
           \E k \in 1..Len(log') :
             /\ log'[k].kind = "cancel"
             /\ log'[k].agv = i
             /\ log'[k].job_id = agvs[i].current_job]_vars

\* ------------------------------------------------------------------------
\* astar on its own: a call astar(graph, start, goal, blocked, tiles) on the
\* layout's graph, for every start and goal among the nodes and two tiles
\* outside the graph, and every blocked set of up to MaxBlocked tiles.  The
\* call and its return value are the only event of the run.
\* ------------------------------------------------------------------------
MaxBlocked == 2

\* the blocked sets: up to MaxBlocked of the tiles other AGVs may hold
\* (highway tiles of each side of the loop, depot and station tiles, parking)
BlockedSets ==
  {b \in SUBSET {<<1, 1>>, <<4, 1>>, <<0, 2>>, <<3, 3>>, <<6, 2>>,
                 <<1, 0>>, <<2, 0>>, <<3, 2>>} : Cardinality(b) <= MaxBlocked}

InitAstar ==
  /\ \E start, goal \in DOMAIN graph \cup {<<0, 4>>, <<7, 7>>}, blocked \in BlockedSets :
       log = <<[kind |-> "astar_call", start |-> start, goal |-> goal,
                blocked |-> blocked, route |-> <<>>]>>
  /\ agvs = <<>> /\ carts = <<>> /\ pending_jobs = <<>> /\ active_jobs = <<>>
  /\ completed_orders = 0 /\ cart_start_times = <<>> /\ cycle_times = <<>>
  /\ next_job_id = 1 /\ sim_elapsed = 0 /\ tick_dt = 0 /\ horizon = 0 /\ pc = 0

\* route = astar(graph, start, goal, blocked=blocked, tiles=tiles)
AstarStep ==
  /\ log[1].kind = "astar_call"
  /\ log' = <<[log[1] EXCEPT !.kind = "astar_return",
                             !.route = astar(log[1].start, log[1].goal, log[1].blocked)]>>
  /\ UNCHANGED <<agvs, carts, pending_jobs, active_jobs, completed_orders,
                 cart_start_times, cycle_times, next_job_id, sim_elapsed, tick_dt,
                 horizon, pc>>

SpecAstar == InitAstar /\ [][AstarStep]_vars

\* the call that has returned, if any
Returned == {log[k] : k \in {j \in 1..Len(log) : log[j].kind = "astar_return"}}

\* C17: a path astar returns for (start, goal) begins with start, ends with
\* goal, and each consecutive pair is a directed edge of the graph; for
\* start = goal (a node of the graph) the path is [start]
C17_PathIsWalk ==
  \A r \in Returned :
    /\ r.route # <<>> =>
         /\ r.route[1] = r.start
         /\ r.route[Len(r.route)] = r.goal
         /\ \A i \in 1..(Len(r.route) - 1) : r.route[i + 1] \in graph[r.route[i]]
    /\ (r.start = r.goal /\ r.start \in DOMAIN graph) => r.route = <<r.start>>

\* a returned path of several steps, with tiles blocked
C17_Witness ==
  \E r \in Returned :
    /\ Len(r.route) >= 4
    /\ r.route[1] = r.start /\ r.route[Len(r.route)] = r.goal
    /\ r.blocked # {}

\* C18: no node of a returned path other than its start and its goal is in
\* blocked, and a goal that is in blocked is reached all the same: the call
\* returns what it returns with the goal taken out of blocked
C18_BlockedAvoided ==
  \A r \in Returned :
    /\ \A i \in 2..(Len(r.route) - 1) : r.route[i] \notin r.blocked
    /\ r.goal \in r.blocked =>
         r.route = astar(r.start, r.goal, r.blocked \ {r.goal})

\* a path of several steps to a blocked goal, another blocked tile lying on
\* the route taken with nothing blocked
C18_Witness ==
  \E r \in Returned :
    /\ Len(r.route) >= 3
    /\ r.goal \in r.blocked
    /\ r.start \notin r.blocked
    /\ \E b \in r.blocked \ {r.goal} : b \in Range(astar(r.start, r.goal, {}))

\* the least total cost of a walk from each node to goal whose nodes after
\* the first are outside blocked or the goal, entering a node costing 1 for a
\* highway tile or the goal and 10 otherwise (Inf: no such walk); found by
\* relaxing every edge until nothing changes
CheapestCost ==
  LET enter(n, goal) == IF n = goal \/ tiles[n].tile_type = "highway" THEN 1 ELSE 10
      least(S) == CHOOSE x \in S : \A y \in S : x <= y
      round(E, goal, blocked) ==
        [n \in DOMAIN graph |->
           IF n = goal THEN 0
           ELSE least({Inf} \cup {enter(m, goal) + E[m] :
                                    m \in {x \in graph[n] : x = goal \/ x \notin blocked}})]
      RECURSIVE fix(_, _, _)
      fix(E, goal, blocked) ==
        LET E2 == round(E, goal, blocked)
        IN IF E2 = E THEN E ELSE fix(E2, goal, blocked)
      table == [q \in (DOMAIN graph) \X BlockedSets |->
                  fix([n \in DOMAIN graph |-> IF n = q[1] THEN 0 ELSE Inf], q[1], q[2])]
  \* worked out once, as a table
  IN table @@ <<>>

\* the cost of a path as astar counts it
PathCost(route, goal) ==
  LET RECURSIVE sum(_)
      sum(i) == IF i > Len(route) THEN 0
                ELSE (IF route[i] = goal \/ tiles[route[i]].tile_type = "highway"
                        THEN 1 ELSE 10) + sum(i + 1)
  IN sum(2)

\* C19: on the layout's graph (edges join 4-adjacent tiles), with tiles
\* supplied, the path astar returns has the least total cost among the paths
\* from start to goal that avoid blocked, entering a node costing 1 if it is
\* a highway tile or the goal and 10 otherwise; so no route over other tiles
\* is cheaper than the one returned, and a route found with one more tile
\* blocked costs no less
C19_CheapestPath ==
  \A r \in Returned :
    r.route # <<>> =>
      /\ PathCost(r.route, r.goal) = CheapestCost[<<r.goal, r.blocked>>][r.start]
      /\ \A b \in r.blocked :
           CheapestCost[<<r.goal, r.blocked \ {b}>>][r.start]
             <= PathCost(r.route, r.goal)

\* a path is returned that is longer than the distance between its ends,
\* and a blocked highway tile made it dearer than the cheapest path without
\* that tile blocked
C19_Witness ==
  \E r \in Returned :
    /\ r.route # <<>>
    /\ Len(r.route) - 1 > Manhattan(r.start, r.goal)
    /\ \E b \in r.blocked :
         /\ tiles[b].tile_type = "highway"
         /\ CheapestCost[<<r.goal, r.blocked \ {b}>>][r.start]
              < PathCost(r.route, r.goal)

\* C20: astar returns no path exactly when start or goal is not a node of
\* the graph or no directed path leads from start to goal with its nodes
\* other than start and goal outside blocked; whenever there is such a path,
\* a path is returned
C20_NoneExactlyWhenNoPath ==
  \A r \in Returned :
    r.route = <<>> <=>
      \/ r.start \notin DOMAIN graph
      \/ r.goal \notin DOMAIN graph
      \/ CheapestCost[<<r.goal, r.blocked>>][r.start] = Inf

\* between two nodes of the graph joined by a path, the blocked tiles leave
\* no path and none is returned
C20_Witness ==
  \E r \in Returned :
    /\ r.start \in DOMAIN graph /\ r.goal \in DOMAIN graph
    /\ r.route = <<>>
    /\ r.blocked # {}
    /\ CheapestCost[<<r.goal, {}>>][r.start] < Inf

\* capacity of the stations in the fill tables handed to the station ranking
MaxCapacity == 5

\* simulated time explored in the runs with cut-off AGVs (90 s)
PlanTime == 9000

\* ------------------------------------------------------------------------
\* Single calls of methods, as the unit tests make them: the objects are set
\* up, the method is called once, and the call with what it returned is the
\* only event of the run.
\* ------------------------------------------------------------------------
InitCall ==
  /\ \* agv.reroute(graph, agvs, tiles): AGV 1 was sent from some node toward
     \* a tile AGVs are sent to, has advanced along its path and waits; AGV 2
     \* stands idle on another node or is on its way to the AGV spawn tile
     \/ /\ \E s \in DOMAIN graph, g \in placeable \cup {<<3, 4>>}, k \in 0..1 :
             \E sent \in {set_destination(NewAGV(s), g, {})} :
               /\ sent.ok
               /\ Len(sent.agv.path) > 2 * k
               /\ \E p \in DOMAIN graph \ {sent.agv.path[k + 1]}, moving \in BOOLEAN :
                    agvs = << [sent.agv EXCEPT !.pos = sent.agv.path[k + 1],
                                               !.path_index = k,
                                               !.path_progress = 99, !.is_blocked = TRUE,
                                               !.blocked_timer = BLOCK_TIMEOUT],
                              IF moving THEN set_destination(NewAGV(p), <<3, 4>>, {}).agv
                              ELSE NewAGV(p) >>
        /\ log = <<[kind |-> "call", method |-> "reroute"]>>
        /\ carts = <<>>
     \* a planning call on an AGV that is new, or idle with cart 1 on it, or
     \* has been sent to the tile it stands on; cart 1 is at the goal
     \/ /\ \E s \in DOMAIN graph \cup {<<0, 4>>}, prior \in 1..3 :
             agvs = << CASE prior = 1 -> NewAGV(s)
                         [] prior = 2 -> [NewAGV(s) EXCEPT !.carrying_cart = 1]
                         [] prior = 3 -> set_destination(NewAGV(s), s, {}).agv >>
        /\ \E m \in {"set_destination", "return_to_spawn", "pickup_cart", "start_dropoff"},
              \* (0, 4) is not a node of the graph
              g \in {<<0, 0>>, <<2, 2>>, <<5, 4>>, <<6, 0>>, <<3, 4>>, <<0, 4>>},
              blocked \in { {}, {<<6, 2>>}, {<<1, 3>>}, {<<3, 2>>},
                            {<<1, 0>>, <<0, 1>>}, {<<4, 4>>, <<5, 3>>} } :
             /\ log = <<[kind |-> "call", method |-> m, goal |-> g, blocked |-> blocked]>>
             /\ carts = <<NewCart(g)>>
     \* the ranking of _pick_best_station over a fill table of stations with
     \* MaxCapacity tiles, for a cart on a tile carts are put on
     \/ /\ \E current \in [{"S1", "S2"} -> 0..MaxCapacity],
              remaining_stations \in {<<>>, <<1>>, <<2>>, <<1, 2>>, <<2, 1>>},
              cart_pos \in placeable :
             log = <<[kind |-> "call", method |-> "pick_best_station",
                      fill |-> [sid \in {"S1", "S2"} |->
                                  [current |-> current[sid], capacity |-> MaxCapacity]],
                      remaining_stations |-> remaining_stations,
                      cart_pos |-> cart_pos]>>
        /\ agvs = <<>>
        /\ carts = <<>>
     \* the turn of AGV 1 in _handle_blocked_agvs: AGV 1 waits, blocked, one
     \* step before a tile on which AGV 2 stands idle or picks up a cart;
     \* further idle AGVs stand on the first n unaffiliated parking and
     \* AGV-spawn tiles
     \/ /\ \E b \in placeable \cup {<<3, 4>>}, busy \in BOOLEAN,
              timer \in {BLOCK_TIMEOUT - 100, BLOCK_TIMEOUT} :
             \E s \in {s \in DOMAIN graph : b \in graph[s]},
                free \in {SelectSeq(TilesOfStation(tiles, TileOrder,
                                                  {"parking", "agv_spawn"}, NoStation),
                                   LAMBDA p : p # b)} :
               \E n \in {0, 2, Len(free)} :
                 agvs = << [set_destination(NewAGV(s), b, {}).agv EXCEPT
                              !.path_progress = 99, !.is_blocked = TRUE,
                              !.blocked_timer = timer],
                           IF busy
                             THEN [NewAGV(b) EXCEPT !.state = "picking_up",
                                                    !.action_timer = PICKUP_TIME,
                                                    !.carrying_cart = 1,
                                                    !.current_job = 1]
                             ELSE NewAGV(b) >>
                          \o [k \in 1..n |-> NewAGV(free[k])]
        /\ log = <<[kind |-> "call", method |-> "handle_blocked"]>>
        /\ carts = <<>>
     \* _park_idle_agvs: AGV 1 stands on some node, idle, or idle with a job
     \* or a cart, or on its way; AGV 2 stands idle on another node; further
     \* idle AGVs stand on the first n unaffiliated parking and AGV-spawn
     \* tiles that are left
     \/ /\ \E s \in DOMAIN graph, p \in DOMAIN graph,
              first \in {"idle", "job", "cart", "moving"} :
             /\ s # p
             /\ \E free \in {SelectSeq(TilesOfStation(tiles, TileOrder,
                                                      {"parking", "agv_spawn"}, NoStation),
                                       LAMBDA q : q \notin {s, p})} :
                  \E n \in {0, Len(free) - 1, Len(free)} :
                    agvs = << CASE first = "idle" -> NewAGV(s)
                                [] first = "job" -> [NewAGV(s) EXCEPT !.current_job = 1]
                                [] first = "cart" -> [NewAGV(s) EXCEPT !.carrying_cart = 1]
                                [] first = "moving" ->
                                     set_destination(NewAGV(s), AGV_SPAWN_TILE, {}).agv,
                              NewAGV(p) >>
                             \o [k \in 1..n |-> NewAGV(free[k])]
        /\ log = <<[kind |-> "call", method |-> "park_idle_agvs"]>>
        /\ carts = <<>>
  /\ pending_jobs = <<>> /\ active_jobs = <<>>
  /\ completed_orders = 0 /\ cart_start_times = <<>> /\ cycle_times = <<>>
  /\ next_job_id = 1 /\ sim_elapsed = 0 /\ tick_dt = 0 /\ horizon = 0 /\ pc = 0

\* the call is made and returns
CallStep ==
  /\ pc = 0
  /\ log # <<>>
  /\ log[1].kind = "call"
  /\ \/ /\ log[1].method = "reroute"
        /\ \E rr \in {reroute(agvs, 1)} :
             /\ agvs' = [agvs EXCEPT ![1] = rr.agv]
             /\ log' = <<[kind |-> "reroute", agv |-> 1, ok |-> rr.ok,
                          before |-> agvs[1], after |-> rr.agv,
                          blocked |-> BlockedTiles(agvs, 1)]>>
     \/ /\ log[1].method = "pick_best_station"
        /\ log' = <<[kind |-> "picked", fill |-> log[1].fill,
                     remaining_stations |-> log[1].remaining_stations,
                     cart_pos |-> log[1].cart_pos,
                     station |-> PickAmong(log[1].fill, log[1].remaining_stations,
                                           log[1].cart_pos)]>>
        /\ agvs' = agvs
     \/ /\ log[1].method = "handle_blocked"
        /\ \E w \in {HandleBlocked(World, 1)} :
             /\ agvs' = w.agvs
             /\ log' = w.log
     \/ /\ log[1].method = "park_idle_agvs"
        /\ \E w \in {park_idle_agvs(World)} :
             /\ agvs' = w.agvs
             /\ log' = w.log
     \/ /\ log[1].method \notin {"reroute", "pick_best_station", "handle_blocked",
                                  "park_idle_agvs"}
        /\ \E m \in {log[1].method}, g \in {log[1].goal}, blocked \in {log[1].blocked} :
             \E r \in {CASE m = "set_destination" -> set_destination(agvs[1], g, blocked)
                         [] m = "return_to_spawn" -> return_to_spawn(agvs[1])
                         [] m = "pickup_cart" ->
                              pickup_cart(agvs[1], 1, carts[1].pos, blocked)
                         [] m = "start_dropoff" -> start_dropoff(agvs[1], g, blocked)} :
               /\ agvs' = [agvs EXCEPT ![1] = r.agv]
               /\ log' = <<[kind |-> "return", method |-> m, ok |-> r.ok,
                            before |-> agvs[1], after |-> r.agv,
                            route |-> astar(agvs[1].pos,
                                            IF m = "return_to_spawn" THEN AGV_SPAWN_TILE
                                            ELSE g,
                                            IF m = "return_to_spawn" THEN {} ELSE blocked)]>>
  /\ UNCHANGED <<carts, pending_jobs, active_jobs, completed_orders,
                 cart_start_times, cycle_times, next_job_id, sim_elapsed, tick_dt,
                 horizon, pc>>

SpecCall == InitCall /\ [][CallStep]_vars

\* the single calls together with runs in which AGVs are in each other's
\* way: two of three AGVs and four carts in which the other two AGVs cut an
\* AGV off from the cart or the target tile of its job, and one of two AGVs
\* and a cart in which an idle AGV stands on the path of the other
SpecPlan ==
  /\ \/ InitCall
     \/ \E dt \in TickDts,
           pl \in { [agvs |-> << <<3, 2>>, <<1, 2>>, <<2, 0>> >>,
                     carts |-> << <<5, 4>>, <<4, 4>>, <<5, 2>>, <<1, 4>> >>],
                    [agvs |-> << <<4, 2>>, <<5, 2>>, <<3, 0>> >>,
                     carts |-> << <<4, 4>>, <<0, 0>>, <<4, 0>>, <<1, 4>> >>],
                    [agvs |-> << <<1, 0>>, <<2, 0>> >>,
                     carts |-> << <<3, 2>> >>] } :
          InitWith(pl, dt, PlanTime)
  /\ [][Next \/ CallStep]_vars

\* C21: AGV.reroute returns false, leaving path, path_index, path_progress,
\* blocked_timer and is_blocked as they were, whenever the path found around
\* the other AGVs' positions and next tiles has the AGV's current next tile
\* as its second node; it returns true only with the AGV on the path found,
\* whose first step is not the current next tile
C21_RerouteRejectsSameStep ==
  \A k \in LogOf("reroute") :
    \A e \in {log[k]} :
      \A route \in {astar(e.before.pos, RerouteGoal(e.before), e.blocked)} :
        /\ (HasNext(e.before) /\ Len(route) > 1 /\ route[2] = NextTile(e.before)) =>
             /\ ~e.ok
             /\ e.after = e.before
        /\ e.ok =>
             /\ route # <<>>
             /\ e.after.path = route
             /\ e.after.path_index = 0
             /\ (HasNext(e.before) /\ Len(route) > 1) => route[2] # NextTile(e.before)

\* a re-route was refused because the path found leaves by the same tile
C21_Witness ==
  \E k \in LogOf("reroute") :
    /\ ~log[k].ok
    /\ HasNext(log[k].before)
    /\ \E route \in {astar(log[k].before.pos, RerouteGoal(log[k].before), log[k].blocked)} :
         Len(route) > 1 /\ route[2] = NextTile(log[k].before)

\* C22: a planning call (set_destination, return_to_spawn, pickup_cart,
\* start_dropoff) that finds no route returns false and leaves the AGV as it
\* was; when pickup_cart fails in the dispatcher the job stays pending and
\* unassigned, when start_dropoff fails the job stays active with its AGV,
\* and an active job whose AGV stands idle with the job's cart is planned
\* again in every dispatcher update until the AGV is on its way
C22_NoRouteChangesNothing ==
  [][/\ \A k \in 1..Len(log') :
          LET e == log'[k] IN
          /\ e.kind = "return" /\ e.route = <<>> =>
               /\ ~e.ok
               /\ e.after = e.before
               /\ agvs'[1] = e.before
          /\ e.kind = "no_route" =>
               /\ e.after = e.before
               /\ e.method = "pickup_cart" =>
                    /\ \E j \in 1..Len(pending_jobs') :
                         /\ pending_jobs'[j].job_id = e.job_id
                         /\ pending_jobs'[j].assigned_agv = 0
                    /\ ~JobIn(active_jobs', e.job_id)
                    /\ JobIn(pending_jobs, e.job_id) \/ e.job_id >= next_job_id
               /\ e.method = "start_dropoff" =>
                    /\ \E j \in 1..Len(active_jobs') :
                         /\ active_jobs'[j].job_id = e.job_id
                         /\ active_jobs'[j].assigned_agv = e.agv
                    /\ ~JobIn(pending_jobs', e.job_id)
                    /\ agvs'[e.agv] = e.before
     /\ pc = Len(agvs) + 2 =>
          \A j \in 1..Len(active_jobs) :
            LET job == active_jobs[j]
                i == job.assigned_agv
            IN (i # 0 /\ agvs[i].state = "idle" /\ agvs[i].carrying_cart # 0
                /\ agvs[i].carrying_cart = job.cart) =>
                 \/ agvs'[i].state = "moving_to_dropoff"
                 \/ \E k \in 1..Len(log') :
                      /\ log'[k].kind = "no_route"
                      /\ log'[k].method = "start_dropoff"
                      /\ log'[k].job_id = job.job_id]_vars

\* the dispatcher could not plan the drop-off of a job: the job is active and
\* its AGV stands idle with the cart
C22_Witness ==
  \E k \in LogOf("no_route") :
    /\ log[k].method = "start_dropoff"
    /\ JobIn(active_jobs, log[k].job_id)
    /\ agvs[log[k].agv].state = "idle"
    /\ agvs[log[k].agv].carrying_cart # 0

\* C23: an AGV on a path that does not own a cart (carrying_cart unset, or
\* set while the cart's carried_by is not this AGV) and has no other AGV on a
\* tile of its path ahead is not blocked in its update whatever stationary
\* carts are on the path: it advances one tile per unit of progress, keeps
\* the rest of the progress, and at the end of the path it stands on the
\* last tile, in picking_up with the pickup timer set if it was
\* moving_to_pickup
C23_CartsDoNotBlockEmptyAgv ==
  [][\A i \in AgvIds(agvs) :
       LET a == agvs[i]
           b == agvs'[i]
           ahead == {a.path[n] : n \in (a.path_index + 2)..Len(a.path)}
           units == (a.path_progress + AGV_SPEED * tick_dt) \div 100
           left == Len(a.path) - 1 - a.path_index
       IN (/\ pc = i
           /\ a.state \notin {"idle", "picking_up", "dropping_off"}
           /\ a.path # <<>>
           /\ a.carrying_cart = 0 \/ carts[a.carrying_cart].carried_by # i
           /\ \A o \in AgvIds(agvs) \ {i} : agvs[o].pos \notin ahead) =>
            /\ ~b.is_blocked
            /\ b.blocked_timer = 0
            /\ units < left =>
                 /\ b.path = a.path
                 /\ b.path_index = a.path_index + units
                 /\ b.pos = a.path[a.path_index + units + 1]
                 /\ b.path_progress = a.path_progress + AGV_SPEED * tick_dt - 100 * units
                 /\ b.state = a.state
            /\ units >= left =>
                 /\ b.pos = Last(a.path)
                 /\ b.path = <<>>
                 /\ b.state = CASE a.state = "moving_to_pickup" -> "picking_up"
                                [] a.state = "moving_to_dropoff" -> "dropping_off"
                                [] OTHER -> "idle"
                 /\ a.state = "moving_to_pickup" => b.action_timer = PICKUP_TIME]_vars

\* an AGV without a cart of its own is on its way and stands on a tile that
\* holds a stationary cart other than the one it is sent to
C23_Witness ==
  \E i \in AgvIds(agvs), c \in CartIds(carts) :
    /\ agvs[i].path # <<>>
    /\ agvs[i].path_index > 0
    /\ agvs[i].carrying_cart = 0 \/ carts[agvs[i].carrying_cart].carried_by # i
    /\ agvs[i].carrying_cart # c
    /\ carts[c].carried_by = 0
    /\ carts[c].pos = agvs[i].pos

\* C24: whenever the update of an AGV on a path ends with just_rerouted set,
\* the tile found occupied (the tile after the AGV's position on the path it
\* had) does not occur in the new path after its first node, and the AGV is
\* not on it
C24_RerouteAvoidsOccupiedTile ==
  [][\A i \in AgvIds(agvs) :
       LET a == agvs[i]
           b == agvs'[i]
       IN (/\ pc = i
           /\ a.state \notin {"idle", "picking_up", "dropping_off"}
           /\ a.path # <<>>
           /\ b.just_rerouted) =>
            \A m \in (a.path_index + 1)..(Len(a.path) - 1) :
              a.path[m] = b.pos =>
                /\ b.pos # a.path[m + 1]
                /\ \A n \in 2..Len(b.path) : b.path[n] # a.path[m + 1]]_vars

\* an update has ended with just_rerouted set and the AGV on a new path
C24_Witness ==
  \E i \in AgvIds(agvs) :
    /\ agvs[i].just_rerouted
    /\ Len(agvs[i].path) > 1
    /\ agvs[i].path_index = 0
    /\ agvs[i].path[1] = agvs[i].pos
    /\ pc = i + 1

\* C25: _pick_best_station returns one of the remaining stations whose fill
\* is below capacity, of the lowest tier among them (1 if the fill rate is at
\* most 0.5, 2 if at most 0.75, else 3) and, within that tier, at the
\* smallest Manhattan distance from the cart to the station's first tile; it
\* returns none exactly when no remaining station is below capacity
C25_BestStationByTierThenDistance ==
  \A k \in LogOf("picked") :
    LET e == log[k]
        open == {s \in Range(e.remaining_stations) :
                   e.fill[Sid(s)].current < e.fill[Sid(s)].capacity}
        tier(s) == IF 100 * e.fill[Sid(s)].current <= 50 * e.fill[Sid(s)].capacity THEN 1
                   ELSE IF 100 * e.fill[Sid(s)].current <= 75 * e.fill[Sid(s)].capacity
                     THEN 2
                   ELSE 3
        dist(s) == Manhattan(e.cart_pos, station_tiles(Sid(s), "pick_station")[1])
    IN /\ e.station = 0 <=> open = {}
       /\ e.station # 0 =>
            /\ e.station \in open
            /\ \A s \in open :
                 \/ tier(e.station) < tier(s)
                 \/ tier(e.station) = tier(s) /\ dist(e.station) <= dist(s)

\* the station returned is of a lower tier than a nearer station that is
\* also below capacity
C25_Witness ==
  \E k \in LogOf("picked") :
    LET e == log[k] IN
    /\ e.station # 0
    /\ \E s \in Range(e.remaining_stations) \ {e.station} :
         /\ e.fill[Sid(s)].current < e.fill[Sid(s)].capacity
         /\ 4 * e.fill[Sid(s)].current > 3 * e.fill[Sid(s)].capacity
         /\ 2 * e.fill[Sid(e.station)].current <= e.fill[Sid(e.station)].capacity
         /\ Manhattan(e.cart_pos, station_tiles(Sid(s), "pick_station")[1])
              < Manhattan(e.cart_pos, station_tiles(Sid(e.station), "pick_station")[1])

\* C26: no two stationary carts (carried_by none) are on the same tile, in
\* every state of every run from the pre-placement on distinct tiles: a
\* drop-off never puts a cart on a tile that holds another stationary cart
C26_StationaryCartsApart ==
  \A c \in CartIds(carts), d \in CartIds(carts) :
    (c # d /\ carts[c].carried_by = 0 /\ carts[d].carried_by = 0) =>
      carts[c].pos # carts[d].pos

\* an AGV has just put down a cart (the cart is idle on the tile of the AGV
\* that finished dropping off) while another stationary cart is about
C26_Witness ==
  \E c \in CartIds(carts), d \in CartIds(carts), i \in AgvIds(agvs) :
    /\ c # d
    /\ carts[c].carried_by = 0 /\ carts[d].carried_by = 0
    /\ carts[c].state = "idle"
    /\ agvs[i].pos = carts[c].pos
    /\ agvs[i].current_job # 0
    /\ agvs[i].carrying_cart = 0
    /\ agvs[i].state = "idle"

\* C27: process_timer is never negative; it is set when a job completion
\* puts the cart into at_box_depot (box_depot_time), picking
\* (pick_time_per_item for each item of the order at the station) or
\* at_packoff (packoff_time); it goes down only in the cart update of a tick,
\* only in those three states and by at most the tick's dt; and while it is
\* above 0 in one of those states the cart has no job, gets none, and stays
\* stationary on its tile in its state -- so that at least the full
\* processing time passes between the completion and the next job
C27_NoJobBeforeTimerExpires ==
  [][\A c \in CartIds(carts) :
       LET x == carts[c]
           y == carts'[c]
           T3 == {"at_box_depot", "picking", "at_packoff"}
       IN /\ y.process_timer >= 0
          /\ y.process_timer < x.process_timer =>
               /\ pc = Len(agvs) + 1
               /\ x.state \in T3
               /\ y.state = x.state
               /\ y.process_timer =
                    IF x.process_timer > tick_dt THEN x.process_timer - tick_dt ELSE 0
          /\ (y.state \in T3 /\ y.state # x.state) =>
               \E k \in 1..Len(log') :
                 /\ log'[k].kind = "complete"
                 /\ log'[k].job.cart = c
                 /\ y.process_timer =
                      CASE y.state = "at_box_depot" -> BOX_DEPOT_TIME
                        [] y.state = "at_packoff" -> PACKOFF_TIME
                        [] y.state = "picking" ->
                             PICK_TIME_PER_ITEM *
                               (IF x.order.present
                                  THEN items_at_station(x.order,
                                                        StationNum(log'[k].job.station_id))
                                  ELSE 1)
          /\ (x.state \in T3 /\ x.process_timer > 0) =>
               /\ \A k \in 1..Len(pending_jobs) : pending_jobs[k].cart # c
               /\ \A k \in 1..Len(active_jobs) : active_jobs[k].cart # c
               /\ \A k \in 1..Len(log') : log'[k].kind = "create" => log'[k].cart # c
               /\ y.state = x.state
               /\ y.pos = x.pos
               /\ x.carried_by = 0 /\ y.carried_by = 0
          /\ \A k \in 1..Len(log') :
               (/\ log'[k].kind = "create"
                /\ log'[k].cart = c
                /\ log'[k].cart_state \in T3) => log'[k].process_timer = 0]_vars

\* a job has been created for a cart whose picking time had run out
C27_Witness ==
  \E k \in LogOf("create") :
    /\ log[k].cart_state = "picking"
    /\ log[k].process_timer = 0
    /\ carts[log[k].cart].order.present
    /\ carts[log[k].cart].process_timer = 0

\* C28: a move_to_packoff job is created only for a cart with an order whose
\* stations_to_visit are all in completed_stations, and a station gets into
\* completed_stations only when a move_to_pick job to that station completes
\* and puts the cart into picking on a tile of the station, so that a cart
\* at_packoff has been in picking at every station of its order; a
\* return_to_box_depot job is created only for a cart at_packoff whose
\* process timer is 0
C28_PackoffAfterAllStations ==
  [][/\ \A k \in 1..Len(log') :
          LET e == log'[k] IN
          e.kind = "create" =>
            /\ e.job_type = "move_to_packoff" =>
                 /\ e.order.present
                 /\ Range(e.order.stations_to_visit) \subseteq
                      Range(e.order.completed_stations)
            /\ e.job_type = "return_to_box_depot" =>
                 /\ e.cart_state = "at_packoff"
                 /\ e.process_timer = 0
     /\ \A c \in CartIds(carts) :
          LET x == carts[c]
              y == carts'[c]
          IN /\ y.state = "at_packoff" =>
                  /\ y.order.present
                  /\ Range(y.order.stations_to_visit) \subseteq
                       Range(y.order.completed_stations)
             /\ (y.order.present /\ ~x.order.present) =>
                  y.order.completed_stations = <<>>
             /\ (y.order.present /\ x.order.present
                 /\ y.order.completed_stations # x.order.completed_stations) =>
                  /\ x.state # "picking"
                  /\ y.state = "picking"
                  /\ \E k \in 1..Len(log') :
                       /\ log'[k].kind = "complete"
                       /\ log'[k].job.cart = c
                       /\ log'[k].job.job_type = "move_to_pick"
                       /\ y.order.completed_stations =
                            Append(x.order.completed_stations,
                                   StationNum(log'[k].job.station_id))
                       /\ tiles[y.pos].station_id = log'[k].job.station_id]_vars

\* a cart with an order for both stations is at Pack-off
C28_Witness ==
  \E c \in CartIds(carts) :
    /\ carts[c].state = "at_packoff"
    /\ carts[c].order.present
    /\ Len(carts[c].order.stations_to_visit) = 2
    /\ tiles[carts[c].pos].station_id = "Pack_off"

\* C29: in a dispatcher update, for a cart with an order, no job and its
\* process timer at 0, taken at its turn in the loop over the carts (the
\* reservation set then holds the tiles of the stationary carts, the targets
\* of the jobs as retargeted by this update, and the targets of the jobs
\* created for earlier carts): a cart in picking whose chosen station, or
\* Pack-off once all stations are picked, has every tile reserved gets a
\* move_to_buffer job to an unaffiliated parking tile outside the reservation
\* set that no other such tile is nearer to the cart, when there is one, and
\* no job when there is none; a cart at_box_depot whose chosen station has
\* every tile reserved gets no job and stays on its tile in its state
C29_FullDestinationBuffers ==
  [][pc = Len(agvs) + 2 =>
       \A c \in CartIds(carts) :
         LET x == carts[c]
             order == carts'[c].order
             retargets == {k \in 1..Len(log') : log'[k].kind = "retarget"}
             at_turn(j) ==
               IF \E k \in retargets : log'[k].job_id = j.job_id
                 THEN log'[CHOOSE k \in retargets : log'[k].job_id = j.job_id].target_pos
                 ELSE j.target_pos
             created == {k \in 1..Len(log') : log'[k].kind = "create"}
             reserved ==
               {carts[d].pos : d \in {d \in CartIds(carts) : carts[d].carried_by = 0}}
                 \cup {at_turn(LiveJobs[k]) : k \in 1..Len(LiveJobs)}
                 \cup {log'[k].target_pos : k \in {k \in created : log'[k].cart < c}}
             open(s) == \E p \in Range(station_tiles(Sid(s), "pick_station")) :
                          p \notin reserved
             remaining == {s \in Range(order.stations_to_visit) :
                             s \notin Range(order.completed_stations)}
             \* no remaining station has a free tile (whichever is chosen is
             \* full), or none remains and Pack-off has no free tile
             no_tile ==
               IF remaining # {} THEN \A s \in remaining : ~open(s)
               ELSE Range(station_tiles("Pack_off", "parking")) \subseteq reserved
             free == BufferTiles \ reserved
             mine == {k \in created : log'[k].cart = c}
         IN (/\ x.state \in {"picking", "at_box_depot"}
             /\ x.process_timer = 0
             /\ order.present
             /\ \A k \in 1..Len(LiveJobs) : LiveJobs[k].cart # c
             /\ no_tile) =>
              /\ (x.state = "picking" /\ free # {}) =>
                   \E k \in mine :
                     /\ log'[k].job_type = "move_to_buffer"
                     /\ log'[k].target_pos \in free
                     /\ \A p \in free :
                          Manhattan(log'[k].target_pos, x.pos) <= Manhattan(p, x.pos)
                     /\ \E j \in 1..Len(pending_jobs') \cup {0} :
                          \/ j # 0 /\ pending_jobs'[j].job_id = log'[k].job_id
                          \/ JobIn(active_jobs', log'[k].job_id)
              /\ (x.state = "picking" /\ free = {}) => mine = {}
              /\ x.state = "at_box_depot" =>
                   /\ mine = {}
                   /\ carts'[c].state = x.state
                   /\ carts'[c].pos = x.pos
                   /\ carts'[c].process_timer = 0]_vars

\* the dispatcher update just made has created a move_to_buffer job for a
\* cart in picking
C29_Witness ==
  /\ \E k \in LogOf("create") :
       log[k].job_type = "move_to_buffer" /\ log[k].cart_state = "picking"
  /\ pc = 1

\* C30: at the turn of a waiting AGV in _handle_blocked_agvs (is_blocked,
\* blocked_timer at least BLOCK_TIMEOUT) whose next tile holds, as the first
\* AGV on it, one that is idle, without a job and not carrying: when an
\* unaffiliated parking or AGV-spawn tile with no AGV on it exists that the
\* blocker has a route to, the blocker is sent (moving, target and path set)
\* to the nearest such tile and the waiter's blocked_timer is 0; otherwise
\* the blocker and the waiter's timer are left as they were; in both cases
\* the waiter's path and path_index are as before and no re-route of the
\* waiter is tried in the update.  Every such turn is taken: a waiter that
\* meets the condition when the update starts, with the blocker not given a
\* job or nudged before and the waiter's job not cancelled or retargeted in
\* the update, has its blocker nudged or found without a tile to go to
C30_IdleBlockerNudged ==
  [][/\ \A k \in 1..Len(log') :
          LET e == log'[k] IN
          e.kind \in {"nudge", "no_nudge"} =>
            LET ag == e.before
                i == e.waiter
                b == e.agv
                free == {p \in TilePositions :
                           /\ tiles[p].tile_type \in {"parking", "agv_spawn"}
                           /\ tiles[p].station_id = NoStation
                           /\ \A o \in AgvIds(ag) : ag[o].pos # p}
                nearest == {p \in free : \A q \in free :
                              Manhattan(p, ag[b].pos) <= Manhattan(q, ag[b].pos)}
            IN /\ ag[i].is_blocked /\ ag[i].blocked_timer >= BLOCK_TIMEOUT
               /\ HasNext(ag[i]) /\ ag[b].pos = NextTile(ag[i])
               /\ \A o \in AgvIds(ag) \ {i} : ag[o].pos = NextTile(ag[i]) => b <= o
               /\ ag[b].state = "idle" /\ ag[b].current_job = 0 /\ ag[b].carrying_cart = 0
               /\ e.kind = "nudge" =>
                    /\ e.target_pos \in nearest
                    /\ agvs'[b].state = "moving"
                    /\ agvs'[b].target = e.target_pos
                    /\ agvs'[b].path = astar(ag[b].pos, e.target_pos, {})
                    /\ agvs'[b].path # <<>>
                    /\ agvs'[i].blocked_timer = 0
               /\ e.kind = "no_nudge" =>
                    /\ \/ free = {}
                       \/ \A p \in nearest : astar(ag[b].pos, p, {}) = <<>>
                    /\ agvs'[b] = ag[b]
                    /\ agvs'[i].blocked_timer = ag[i].blocked_timer
               /\ agvs'[i].path = ag[i].path
               /\ agvs'[i].path_index = ag[i].path_index
               /\ agvs'[i].is_blocked
               /\ \A r \in 1..Len(log') : log'[r].kind = "reroute" => log'[r].agv # i
     /\ (\/ pc = Len(agvs) + 2
         \/ pc = 0 /\ log # <<>> /\ log[1].kind = "call"
            /\ log[1].method = "handle_blocked") =>
          \A i \in (IF pc = 0 THEN {1} ELSE AgvIds(agvs)) :
            \A b \in {Blocker(agvs, i)} :
              (/\ agvs[i].is_blocked /\ agvs[i].blocked_timer >= BLOCK_TIMEOUT
               /\ b # 0
               /\ agvs[b].state = "idle" /\ agvs[b].current_job = 0
               /\ agvs[b].carrying_cart = 0
               /\ \A k \in 1..Len(log') :
                    /\ log'[k].kind = "assign" => log'[k].agv # b
                    /\ log'[k].kind \in {"cancel", "retarget"} => log'[k].agv # i
                    /\ log'[k].kind = "nudge" => log'[k].agv # b \/ log'[k].waiter = i) =>
                \E k \in 1..Len(log') :
                  /\ log'[k].kind \in {"nudge", "no_nudge"}
                  /\ log'[k].waiter = i
                  /\ log'[k].agv = b]_vars

\* an idle blocker has been sent to a parking tile and the waiter's timer is 0
C30_Witness ==
  \E k \in LogOf("nudge") :
    /\ agvs[log[k].agv].state = "moving"
    /\ agvs[log[k].agv].target = log[k].target_pos
    /\ agvs[log[k].waiter].blocked_timer = 0
    /\ agvs[log[k].waiter].is_blocked
    /\ pc = 1

\* C31: an AGV that is eligible for a dispatcher reroute (blocked for at least
\* block_timeout, its blocker neither nudgeable nor within the grace period)
\* is passed over at a dispatcher update only while less than reroute_cooldown
\* has passed since its previous reroute attempt: the attempt was made in the
\* current blocking episode (blocked_timer, the time the episode has lasted,
\* is not below last_reroute, its value at that attempt) and less than
\* reroute_cooldown before; an attempt of an earlier episode does not hold
\* back the first attempt of a later one
C31_RerouteAfterCooldown ==
  [][pc = Len(agvs) + 2 =>
       \A k \in 1..Len(log') :
         log'[k].kind = "cooldown" =>
           /\ log'[k].blocked_timer >= BLOCK_TIMEOUT
           /\ log'[k].last_reroute <= log'[k].blocked_timer
           /\ log'[k].blocked_timer - log'[k].last_reroute < REROUTE_COOLDOWN]_vars

\* C32: _park_idle_agvs sends every AGV that is idle, has no job, carries no
\* cart and stands on a highway tile toward a nearest (Manhattan) unaffiliated
\* parking or AGV-spawn tile on which no AGV stands, in state moving and on
\* the route found to that tile, when there is such a tile with a route to
\* it; every other AGV is left as it was
C32_IdleHighwayAgvParked ==
  [][(pc = 0 /\ log # <<>> /\ log[1].kind = "call"
        /\ log[1].method = "park_idle_agvs") =>
       \A free \in {{q \in DOMAIN tiles :
                       /\ tiles[q].tile_type \in {"parking", "agv_spawn"}
                       /\ tiles[q].station_id = NoStation
                       /\ \A o \in AgvIds(agvs) : agvs[o].pos # q}} :
         \A i \in AgvIds(agvs) :
           LET a == agvs[i]
               nearest == {q \in free :
                             \A q2 \in free :
                               Manhattan(a.pos, q) <= Manhattan(a.pos, q2)}
           IN IF /\ a.state = "idle" /\ a.current_job = 0 /\ a.carrying_cart = 0
                 /\ tiles[a.pos].tile_type = "highway"
                 /\ \E q \in nearest : astar(a.pos, q, {}) # <<>>
                THEN /\ agvs'[i].target \in nearest
                     /\ agvs'[i] = [a EXCEPT !.state = "moving",
                                             !.target = agvs'[i].target,
                                             !.path = astar(a.pos, agvs'[i].target, {}),
                                             !.path_index = 0,
                                             !.path_progress = 0]
                ELSE agvs'[i] = a]_vars

\* C32 witness: a call has parked an idle AGV from a highway tile while
\* leaving an idle AGV on a parking tile where it stood
C32_Witness ==
  /\ pc = 0
  /\ \E k \in 1..Len(log) :
       /\ log[k].kind = "park"
       /\ tiles[agvs[log[k].agv].pos].tile_type = "highway"
       /\ agvs[log[k].agv].state = "moving"
       /\ agvs[log[k].agv].target = log[k].target_pos
  /\ \E o \in AgvIds(agvs) :
       /\ agvs[o].state = "idle"
       /\ tiles[agvs[o].pos].tile_type = "parking"

\* C33: an AGV that stops being moving_to_pickup in its update has arrived:
\* it is picking_up on the last tile of its path with the timer at
\* pickup_time.  While it is picking_up it stays on its tile, its cart is
\* stationary, not in_transit and on a reserved tile, and the timer goes down
\* by the tick in each of its updates; it leaves picking_up only in the
\* update in which the timer runs out, idle, with the cart carried by it,
\* in_transit and on its tile.  In the same way moving_to_dropoff ends in
\* dropping_off with the timer at dropoff_time, and dropping_off ends when
\* the timer runs out with the cart unlinked (idle, carried by nobody) on the
\* AGV's tile and the AGV idle with no cart
C33_PickupAndDropoffTakeTheirTime ==
  [][\A i \in AgvIds(agvs) :
       LET a == agvs[i]
           b == agvs'[i]
           c == a.carrying_cart
       IN /\ (a.state = "moving_to_pickup" /\ b.state # a.state /\ pc = i) =>
               /\ b.state = "picking_up"
               /\ b.action_timer = PICKUP_TIME
               /\ b.pos = Last(a.path)
               /\ b.carrying_cart = c
          /\ (a.state = "moving_to_dropoff" /\ b.state # a.state /\ pc = i) =>
               /\ b.state = "dropping_off"
               /\ b.action_timer = DROPOFF_TIME
               /\ b.pos = Last(a.path)
               /\ b.carrying_cart = c
          /\ a.state = "picking_up" =>
               /\ c # 0
               /\ carts[c].carried_by = 0
               /\ carts[c].state # "in_transit"
               /\ carts[c].pos \in reserved_tiles(World)
               /\ IF pc = i /\ a.action_timer <= tick_dt
                    THEN /\ b.state = "idle" /\ b.pos = a.pos /\ b.carrying_cart = c
                         /\ carts'[c].carried_by = i
                         /\ carts'[c].state = "in_transit"
                         /\ carts'[c].pos = a.pos
                    ELSE /\ b.state = "picking_up" /\ b.pos = a.pos
                         /\ b.action_timer = IF pc = i THEN a.action_timer - tick_dt
                                             ELSE a.action_timer
                         /\ carts'[c].carried_by = 0
                         /\ carts'[c].pos = carts[c].pos
          /\ a.state = "dropping_off" =>
               IF pc = i /\ a.action_timer <= tick_dt
                 THEN /\ b.state = "idle" /\ b.pos = a.pos /\ b.carrying_cart = 0
                      /\ c # 0 =>
                           /\ carts'[c].carried_by = 0
                           /\ carts'[c].state = "idle"
                           /\ carts'[c].pos = a.pos
                 ELSE /\ b.state = "dropping_off" /\ b.pos = a.pos
                      /\ b.carrying_cart = c
                      /\ b.action_timer = IF pc = i THEN a.action_timer - tick_dt
                                          ELSE a.action_timer]_vars

\* C33 witness: an AGV's pickup timer has just run out in its update: the
\* AGV is idle and the cart of its job is in_transit, carried by it, on its
\* tile
C33_Witness ==
  /\ pc \in 2..(Len(agvs) + 1)
  /\ agvs[pc - 1].state = "idle"
  /\ agvs[pc - 1].action_timer = 0
  /\ agvs[pc - 1].carrying_cart # 0
  /\ carts[agvs[pc - 1].carrying_cart].state = "in_transit"
  /\ carts[agvs[pc - 1].carrying_cart].carried_by = pc - 1
  /\ carts[agvs[pc - 1].carrying_cart].pos = agvs[pc - 1].pos
  /\ \E k \in 1..Len(active_jobs) : active_jobs[k].assigned_agv = pc - 1

\* C34: an AGV that really carries a cart (carrying_cart set and that cart's
\* carried_by is the AGV) never stands on the tile of a stationary cart, and
\* when its update finds a stationary cart on its next tile it does not leave
\* its tile in that update: it has either taken another route or is stopped
\* with is_blocked set
C34_CarrierKeepsOffStationaryCarts ==
  [][\A i \in AgvIds(agvs) :
       \A c \in {agvs'[i].carrying_cart} \ {0} :
         /\ carts'[c].carried_by = i =>
              \A d \in CartIds(carts') :
                carts'[d].carried_by = 0 => carts'[d].pos # agvs'[i].pos
         /\ ( /\ pc = i
              /\ agvs[i].carrying_cart = c
              /\ carts[c].carried_by = i
              /\ agvs[i].state \notin {"idle", "picking_up", "dropping_off"}
              /\ HasNext(agvs[i])
              /\ agvs[i].path_progress + AGV_SPEED * tick_dt >= 100
              /\ \E d \in CartIds(carts) :
                   carts[d].carried_by = 0 /\ carts[d].pos = NextTile(agvs[i]) ) =>
              /\ agvs'[i].pos = agvs[i].pos
              /\ carts'[c].pos = carts[c].pos
              /\ \/ agvs'[i].is_blocked /\ agvs'[i].path = agvs[i].path
                 \/ /\ agvs'[i].just_rerouted
                    /\ ~agvs'[i].is_blocked
                    /\ agvs'[i].path # agvs[i].path
                    /\ NextTile(agvs'[i]) # NextTile(agvs[i])]_vars

\* C34 witness: an AGV carrying a cart has just been stopped in its update
\* before a tile on which a stationary cart stands and no AGV
C34_Witness ==
  /\ pc \in 2..(Len(agvs) + 1)
  /\ \E i \in {pc - 1} :
       /\ agvs[i].carrying_cart # 0
       /\ carts[agvs[i].carrying_cart].carried_by = i
       /\ agvs[i].is_blocked
       /\ HasNext(agvs[i])
       /\ \E d \in CartIds(carts) :
            carts[d].carried_by = 0 /\ carts[d].pos = NextTile(agvs[i])
       /\ \A o \in AgvIds(agvs) : agvs[o].pos # NextTile(agvs[i])

\* C35: a tick updates the AGVs one at a time in list order, then the carts,
\* then the dispatcher, and only the dispatcher's step touches the jobs.  An
\* AGV's update changes no other AGV and judges its next tile by where the
\* others stand at that moment: an AGV standing there now, earlier or later in
\* the list, keeps it on its tile for this tick, and a tile nothing stands on
\* now is entered, whoever stood there when the tick began
C35_UpdatesInListOrderOnLivePositions ==
  [][/\ pc' = IF pc = Len(agvs) + 2 THEN 1 ELSE pc + 1
     /\ pc # Len(agvs) + 2 =>
          UNCHANGED <<pending_jobs, active_jobs, completed_orders, cart_start_times,
                      cycle_times, next_job_id, sim_elapsed>>
     /\ pc = Len(agvs) + 1 => agvs' = agvs
     /\ \A i \in AgvIds(agvs) :
          pc = i =>
            /\ \A o \in AgvIds(agvs) \ {i} : agvs'[o] = agvs[o]
            /\ LET a == agvs[i] IN
               ( /\ a.state \notin {"idle", "picking_up", "dropping_off"}
                 /\ HasNext(a)
                 /\ a.path_progress + AGV_SPEED * tick_dt >= 100 ) =>
                 /\ (\E o \in AgvIds(agvs) \ {i} : agvs[o].pos = NextTile(a)) =>
                      agvs'[i].pos = a.pos
                 /\ ~Occupied(agvs, carts, i, NextTile(a)) =>
                      \E k \in (a.path_index + 1)..(Len(a.path) - 1) :
                        agvs'[i].pos = At(a.path, k)]_vars

\* C35 witness: in a tick of 1 s, in which an AGV that is not stopped has
\* advanced by one tile, the AGV just updated has advanced onto the tile that
\* an AGV earlier in the list left in this tick
C35_Witness ==
  /\ tick_dt = 100
  /\ pc \in 2..(Len(agvs) + 1)
  /\ \E o \in 1..(pc - 2) :
       /\ agvs[o].path # <<>>
       /\ agvs[o].path_index >= 1
       /\ ~agvs[o].is_blocked
       /\ ~agvs[o].just_rerouted
       /\ agvs[pc - 1].pos = At(agvs[o].path, agvs[o].path_index - 1)
  /\ agvs[pc - 1].path_index >= 1
  /\ ~agvs[pc - 1].is_blocked
  /\ ~agvs[pc - 1].just_rerouted

\* C36: whenever a cart has carried_by = AGV a, a's carrying_cart is that
\* cart and no other AGV holds the cart as its carrying_cart; no AGV is the
\* carrier of two carts
C36_CarrierAndCartAgree ==
  \A c \in CartIds(carts) :
    \A i \in {carts[c].carried_by} \ {0} :
      /\ i \in AgvIds(agvs)
      /\ agvs[i].carrying_cart = c
      /\ \A o \in AgvIds(agvs) \ {i} : agvs[o].carrying_cart # c
      /\ \A d \in CartIds(carts) \ {c} : carts[d].carried_by # i

\* C36 witness: an AGV carries a cart on its way to the drop-off tile while
\* another AGV is on its way to pick up another cart
C36_Witness ==
  \E i, o \in AgvIds(agvs) :
    /\ i # o
    /\ agvs[i].state = "moving_to_dropoff"
    /\ agvs[i].carrying_cart # 0
    /\ carts[agvs[i].carrying_cart].carried_by = i
    /\ agvs[o].state = "moving_to_pickup"
    /\ agvs[o].carrying_cart \notin {0, agvs[i].carrying_cart}
    /\ carts[agvs[o].carrying_cart].carried_by = 0

\* C37: the job lists and the AGVs agree: every job in active_jobs has an
\* assigned AGV whose current_job is that job, every job in pending_jobs has
\* no assigned AGV, no job is in both lists or twice in a list, and every
\* AGV that has a current_job is the assigned AGV of that job in active_jobs
C37_JobBookkeeping ==
  /\ \A k \in 1..Len(active_jobs) :
       /\ active_jobs[k].assigned_agv \in AgvIds(agvs)
       /\ agvs[active_jobs[k].assigned_agv].current_job = active_jobs[k].job_id
  /\ \A k \in 1..Len(pending_jobs) : pending_jobs[k].assigned_agv = 0
  /\ \A k, m \in 1..Len(LiveJobs) :
       LiveJobs[k].job_id = LiveJobs[m].job_id => k = m
  /\ \A i \in AgvIds(agvs) :
       agvs[i].current_job # 0 =>
         \E k \in 1..Len(active_jobs) :
           /\ active_jobs[k].job_id = agvs[i].current_job
           /\ active_jobs[k].assigned_agv = i

\* C37 witness: a dispatcher update has completed a job, leaving its AGV
\* without a job, while another job is active and a third is pending
C37_Witness ==
  /\ pc = 1
  /\ \E k \in 1..Len(log) :
       /\ log[k].kind = "complete"
       /\ log[k].job.assigned_agv # 0
       /\ agvs[log[k].job.assigned_agv].current_job # log[k].job.job_id
       /\ \A m \in 1..Len(LiveJobs) : LiveJobs[m].job_id # log[k].job.job_id
  /\ active_jobs # <<>>
  /\ pending_jobs # <<>>

\* ------------------------------------------------------------------------
\* A run in which a return job is retargeted (headless.py, dispatcher.py)
\* ------------------------------------------------------------------------
\* sim_duration of the run, in hundredths of a second
ReturnTime == 40000

\* Order.__init__ with random.randint(1, 9) drawing length 1
SinglePickLists == {<<s>> : s \in StationNums}

\* two AGVs and five carts as place_entities_randomly can put them
ReturnPlacement ==
  [agvs |-> << <<5, 2>>, <<1, 4>> >>,
   carts |-> << <<2, 2>>, <<4, 0>>, <<1, 0>>, <<1, 2>>, <<0, 0>> >>]

InitReturn == InitWith(ReturnPlacement, 250, ReturnTime)

\* dispatcher.update(...); sim_elapsed += tick_dt, every new order of one pick
DispatchSingle ==
  /\ pc = Len(agvs) + 2
  /\ \E picks \in [{c \in CartIds(carts) : NeedsOrder(World, c)} -> SinglePickLists] :
       Updated(Dispatcher_update(World, picks, sim_elapsed))
  /\ sim_elapsed' = sim_elapsed + tick_dt
  /\ pc' = 1
  /\ UNCHANGED <<tick_dt, horizon>>

NextReturn == AgvStep \/ CartStep \/ DispatchSingle

\* the loop of run_headless keeps taking its next step until sim_duration
SpecReturn == InitReturn /\ [][NextReturn]_vars /\ WF_pc(LoopStep)

\* C38: during one order a cart enters at_packoff once: a cart that is on
\* its way back to the Box Depot in its first order (it carries the order and
\* its start time is still recorded, which the completing return job drops)
\* is not at pack-off again before that order is completed, also when the
\* stuck-job step retargets a job of the cart to a buffer tile
C38_OnePackoffPerOrder ==
  \A c \in DOMAIN ReturnPlacement.carts :
    [](c \in DOMAIN carts /\ carts[c].state = "to_box_depot"
         /\ carts[c].order.present /\ cart_start_times[c] # -1
       => [](c \in DOMAIN carts /\ carts[c].state = "at_packoff"
               => cart_start_times[c] = -1))

\* C39: the dispatcher never sends two jobless AGVs to the same tile: when
\* the blocked-AGV step nudges an idle AGV or the park-idle step parks one,
\* no other AGV in state moving has the tile it is sent to as its target
\* after the call, whether that AGV was on its way before or was sent in the
\* same call
C39_NoSharedParkingTarget ==
  [][(pc = 0 /\ log # <<>> /\ log[1].kind = "call"
        /\ log[1].method \in {"handle_blocked", "park_idle_agvs"}) =>
       \A k \in 1..Len(log') :
         log'[k].kind \in {"nudge", "park"} =>
           \A j \in AgvIds(agvs') \ {log'[k].agv} :
             agvs'[j].state = "moving" => agvs'[j].target # log'[k].target_pos]_vars

\* ------------------------------------------------------------------------
\* Two AGVs facing each other (agv.py update, headless.py tick loop)
\* ------------------------------------------------------------------------
\* sim_duration of the runs, in hundredths of a second
HeadOnTime == 1000

\* AGV 1 on tile x has been sent to gx and AGV 2 on a neighbouring tile y to
\* gy, the route of each starting with the other's tile; no carts
InitHeadOn ==
  /\ \E x \in DOMAIN graph :
       \E y \in {y \in graph[x] : x \in graph[y]}, gx \in DOMAIN graph :
         \E a \in {set_destination(NewAGV(x), gx, {})} :
           /\ a.ok
           /\ Len(a.agv.path) >= 2
           /\ a.agv.path[2] = y
           /\ \E gy \in DOMAIN graph :
                \E b \in {set_destination(NewAGV(y), gy, {})} :
                  /\ b.ok
                  /\ Len(b.agv.path) >= 2
                  /\ b.agv.path[2] = x
                  /\ agvs = <<a.agv, b.agv>>
  /\ carts = <<>>
  /\ pending_jobs = <<>>
  /\ active_jobs = <<>>
  /\ completed_orders = 0
  /\ cart_start_times = <<>>
  /\ cycle_times = <<>>
  /\ next_job_id = 1
  /\ sim_elapsed = 0
  /\ tick_dt \in TickDts
  /\ horizon = HeadOnTime
  /\ pc = 1
  /\ log = <<>>

SpecHeadOn == InitHeadOn /\ [][Next]_vars

\* C40: two AGVs never exchange tiles and never pass through each other: an
\* AGV whose next tile holds another AGV that has this AGV's tile as its own
\* next tile stays on its tile in its update, whichever of the two is updated
\* first and whatever the tick length, and no update puts an AGV on a tile on
\* which another AGV stands
C40_NoExchangeOfTiles ==
  [][(pc \in AgvIds(agvs)) =>
       \A j \in AgvIds(agvs) \ {pc} :
         /\ (/\ HasNext(agvs[pc]) /\ HasNext(agvs[j])
             /\ agvs[j].pos = NextTile(agvs[pc])
             /\ agvs[pc].pos = NextTile(agvs[j]))
              => (agvs'[pc].pos = agvs[pc].pos)
         /\ agvs[j].pos # agvs[pc].pos => (agvs'[pc].pos # agvs[j].pos)]_vars

\* C40 witness: both AGVs have had their update in a tick long enough for two
\* tile steps, and each still waits, blocked, before the other's tile
C40_Witness ==
  /\ pc = Len(agvs) + 1
  /\ tick_dt = 250
  /\ \E i, j \in AgvIds(agvs) :
       /\ i < j
       /\ HasNext(agvs[i]) /\ HasNext(agvs[j])
       /\ agvs[j].pos = NextTile(agvs[i])
       /\ agvs[i].pos = NextTile(agvs[j])
       /\ agvs[i].is_blocked /\ agvs[j].is_blocked
       /\ agvs[i].path_progress = 99 /\ agvs[j].path_progress = 99

====
